---------------------------- MODULE Spec2Model ----------------------------
(***************************************************************************)
(* A model of zebra-proxy: the printer factory (PrinterFactory.js), the    *)
(* POST /print, GET /labels, GET and DELETE /labels/:filename routes of    *)
(* the server, the USB backend (USBPrinter.js), the TCP backend            *)
(* (TCPPrinter.js, both variants)                                          *)
(* and the virtual backend with its saved labels (VirtualPrinter.js), and  *)
(* the node process that runs them all.                                    *)
(*                                                                         *)
(* JavaScript strings are sequences of one-character strings, so that      *)
(* toLowerCase, startsWith, path.join and path.resolve are computed        *)
(* character by character, as the runtime computes them.                   *)
(***************************************************************************)
EXTENDS Integers, Sequences, FiniteSets, TLC

VARIABLES
  \* ---- PrinterFactory.createPrinter ----
  pfConfig,      \* the config object of the last createPrinter call
  pfResult,      \* what the last call returned or threw
  pfBackends,    \* the backends constructed so far, in order
  saveDirExists, \* whether the save directory has been made on the disk
  \* ---- GET /labels/:filename ----
  glEnv,         \* printerConfig.virtual: saveDirectory
  glReq,         \* req.params.filename of the last request
  glRes,         \* the response of the last request
  glFsLog,       \* the filesystem calls of the last request, in order
  \* ---- USBPrinter ----
  usbBus,        \* usb.getDeviceList(): the attached devices and their state
  usbCfg,        \* the configured vendorId / productId
  usbInst,       \* the USBPrinter instances: device, endpoint
  usbCall,       \* per instance: the print call in progress or last settled
  \* ---- TCPPrinter ----
  tcp,           \* the print call: socket, timer, promise, event history
  \* ---- VirtualPrinter ----
  vpPrinter,     \* the instance: outputFormat, saveDirectory
  vpCall,        \* per print call: request, response, timeout, promise
  vpDisk,        \* the disk of the machine, which every route and the printer
                 \* work on: absolute path -> a file or a directory, its times
  vpClock,       \* the clock, in milliseconds, when it was last read
  vpOp,          \* the answer to the last GET /labels or DELETE request
  \* ---- POST /print ----
  rt,            \* printerConfig, and the response sent to POST /print
  \* ---- the node process ----
  proc           \* "running"; "exiting": an unhandled rejection ends it when the
                 \* current turn of the event loop is over; "exited"

pfVars  == <<pfConfig, pfResult, pfBackends, saveDirExists>>
glVars  == <<glEnv, glReq, glRes, glFsLog>>
usbVars == <<usbBus, usbCfg, usbInst, usbCall>>
tcpVars == <<tcp>>
vpVars  == <<vpPrinter, vpCall, vpDisk, vpClock, vpOp>>
rtVars  == <<rt>>
vars    == <<pfVars, glVars, usbVars, tcpVars, vpVars, rtVars, proc>>

-----------------------------------------------------------------------------
(* Bounds of the model *)

MaxFactoryCalls == 2
MaxUsbCalls == 2
MaxDevices == 2
MaxRespLen == 2
MaxClock == 2
MaxBodyLen == 1

-----------------------------------------------------------------------------
(* The node process *)

\* handlers and callbacks run only while the process is alive and no
\* unhandled rejection is waiting for the end of the current turn
Running == proc = "running"

-----------------------------------------------------------------------------
(* JavaScript values *)

Undef   == [t |-> "undefined"]
Null    == [t |-> "null"]
Str(s)  == [t |-> "string", s |-> s]
Num(n)  == [t |-> "number", n |-> n]

\* ToBoolean: what `!x` and `if (x)` test
Truthy(x) ==
  CASE x.t = "undefined" -> FALSE
    [] x.t = "null"      -> FALSE
    [] x.t = "string"    -> x.s # <<>>
    [] x.t = "number"    -> x.n # 0
    [] x.t = "NaN"       -> FALSE
    [] OTHER             -> TRUE

\* String.prototype.toLowerCase on one character: every capital letter of the
\* alphabet the model's strings are written in (ASCII) has its small letter
ToLowerChar(c) ==
  CASE c = "A" -> "a" [] c = "B" -> "b" [] c = "C" -> "c" [] c = "D" -> "d" [] c = "E" -> "e" [] c = "F" -> "f"
    [] c = "G" -> "g" [] c = "H" -> "h" [] c = "I" -> "i" [] c = "J" -> "j" [] c = "K" -> "k" [] c = "L" -> "l"
    [] c = "M" -> "m" [] c = "N" -> "n" [] c = "O" -> "o" [] c = "P" -> "p" [] c = "Q" -> "q" [] c = "R" -> "r"
    [] c = "S" -> "s" [] c = "T" -> "t" [] c = "U" -> "u" [] c = "V" -> "v" [] c = "W" -> "w" [] c = "X" -> "x"
    [] c = "Y" -> "y" [] c = "Z" -> "z"
    [] OTHER   -> c

ToLowerCase(s) == [i \in 1..Len(s) |-> ToLowerChar(s[i])]

\* String.prototype.startsWith
StartsWith(s, p) == Len(p) <= Len(s) /\ SubSeq(s, 1, Len(p)) = p

-----------------------------------------------------------------------------
(* PrinterFactory.createPrinter *)

S_tcp     == <<"t","c","p">>
S_usb     == <<"u","s","b">>
S_virtual == <<"v","i","r","t","u","a","l">>

\* the values of config.type that are tried
TypeValues ==
  { Undef,
    Str(S_tcp), Str(<<"T","C","P">>), Str(<<"T","c","p">>),
    Str(S_usb), Str(<<"U","S","B">>),
    Str(S_virtual), Str(<<"V","i","r","t","u","a","l">>),
    Str(<<"s","e","r","i","a","l">>), Str(<<"t","c","p","s">>), Str(<<>>) }

HostValues == { Undef, Str(<<>>), Str(<<"h">>) }
PortValues == { Undef, Num(0), Num(9100) }

FactoryConfigs ==
  [type : TypeValues, host : HostValues, port : PortValues]

Returned(kind) == [kind |-> "returned", backend |-> kind]
Threw(msg)     == [kind |-> "threw", error |-> msg]

\* createPrinter with the tcp check weakened to "host and port both missing"
CreatePrinterHostOrPort(config) ==
  IF config.type.t # "string"
  THEN Threw("TypeError")
  ELSE LET k == ToLowerCase(config.type.s) IN
       CASE k = S_tcp ->
              IF ~Truthy(config.host) /\ ~Truthy(config.port)
              THEN Threw("TCP printer requires host and port configuration")
              ELSE Returned("tcp")
         [] k = S_usb     -> Returned("usb")
         [] k = S_virtual -> Returned("virtual")
         [] OTHER         -> Threw("Unsupported printer type")

\* the switch of createPrinter: the backend class it constructs, or the error
\* it throws before constructing one
CreatePrinter(config) ==
  IF config.type.t # "string"
  THEN Threw("TypeError")   \* type.toLowerCase() on a non-string
  ELSE LET k == ToLowerCase(config.type.s) IN
       CASE k = S_tcp ->
              IF ~Truthy(config.host) \/ ~Truthy(config.port)
              THEN Threw("TCP printer requires host and port configuration")
              ELSE Returned("tcp")
         [] k = S_usb     -> Returned("usb")
         [] k = S_virtual -> Returned("virtual")
         [] OTHER         -> Threw("Unsupported printer type")

\* ensureDirectoryExists: the save directory is made when existsSync does not
\* find it.  mkdirSync may throw (no permission, an ancestor that is a file, a
\* full disk): the directory is then not there and the error is thrown on.
EnsureDirectoryExists(exists, mkdirThrows) ==
  IF exists THEN [exists |-> TRUE, error |-> ""]
  ELSE IF mkdirThrows THEN [exists |-> FALSE, error |-> "EACCES: permission denied, mkdir"]
  ELSE [exists |-> TRUE, error |-> ""]

\* whether mkdirSync throws, when it is called: it is called only when the
\* directory is not there
MkdirOutcomes(exists) == IF exists THEN { FALSE } ELSE BOOLEAN

\* `new VirtualPrinter(virtual)` at the end of the switch: the constructor runs
\* ensureDirectoryExists, and what it throws createPrinter throws.  selected is
\* what the switch chose; the result and whether the save directory exists.
Construct(selected, exists, mkdirThrows) ==
  LET made == EnsureDirectoryExists(exists, mkdirThrows) IN
  IF selected # Returned("virtual") THEN [result |-> selected, exists |-> exists]
  ELSE IF made.error # "" THEN [result |-> Threw(made.error), exists |-> made.exists]
  ELSE [result |-> selected, exists |-> made.exists]

PfInit ==
  /\ pfConfig = [type |-> Undef, host |-> Undef, port |-> Undef]
  /\ pfResult = [kind |-> "none"]
  /\ pfBackends = <<>>
  /\ saveDirExists \in BOOLEAN

\* createPrinter has not been called
PfAtRest ==
  /\ pfConfig = [type |-> Undef, host |-> Undef, port |-> Undef]
  /\ pfResult = [kind |-> "none"]
  /\ pfBackends = <<>>

PfIdle == PfAtRest /\ saveDirExists = FALSE

PfCreate ==
  \E config \in FactoryConfigs, mkdirThrows \in MkdirOutcomes(saveDirExists) :
    LET r == Construct(CreatePrinter(config), saveDirExists, mkdirThrows) IN
    /\ Running
    /\ Len(pfBackends) < MaxFactoryCalls
    /\ pfConfig' = config
    /\ pfResult' = r.result
    /\ pfBackends' = IF r.result.kind = "returned"
                     THEN Append(pfBackends, r.result.backend)
                     ELSE pfBackends
    /\ saveDirExists' = r.exists
    /\ UNCHANGED <<glVars, usbVars, tcpVars, vpVars, rtVars, proc>>

-----------------------------------------------------------------------------
(* node's path module (posix) on character sequences *)

SLASH == "/"
DOT   == "."
DOTDOT == <<".", ".">>

\* s.split('/'): the segments between the slashes, empty ones included;
\* SplitFrom gives those of s from position i on
RECURSIVE SplitFrom(_, _)
SplitFrom(s, i) ==
  LET slashes == { j \in i..Len(s) : s[j] = SLASH } IN
  IF slashes = {} THEN << SubSeq(s, i, Len(s)) >>
  ELSE LET j == CHOOSE x \in slashes : \A y \in slashes : x <= y
       IN << SubSeq(s, i, j - 1) >> \o SplitFrom(s, j + 1)

Split(s) == SplitFrom(s, 1)

\* segs.join('/')
RECURSIVE JoinSegs(_)
JoinSegs(segs) ==
  IF segs = <<>> THEN <<>>
  ELSE IF Len(segs) = 1 THEN segs[1]
       ELSE segs[1] \o <<SLASH>> \o JoinSegs(Tail(segs))

\* normalizeString: drop '' and '.', let '..' remove the segment before it;
\* above the start '..' is kept for a relative path and dropped for an absolute one
RECURSIVE NormalizeSegs(_, _, _)
NormalizeSegs(segs, acc, allowAboveRoot) ==
  IF segs = <<>> THEN acc
  ELSE LET h == Head(segs) IN
       IF h = <<>> \/ h = <<DOT>>
       THEN NormalizeSegs(Tail(segs), acc, allowAboveRoot)
       ELSE IF h = DOTDOT
            THEN IF acc # <<>> /\ acc[Len(acc)] # DOTDOT
                 THEN NormalizeSegs(Tail(segs), SubSeq(acc, 1, Len(acc) - 1), allowAboveRoot)
                 ELSE IF allowAboveRoot
                      THEN NormalizeSegs(Tail(segs), Append(acc, DOTDOT), allowAboveRoot)
                      ELSE NormalizeSegs(Tail(segs), acc, allowAboveRoot)
            ELSE NormalizeSegs(Tail(segs), Append(acc, h), allowAboveRoot)

IsAbsolute(p) == p # <<>> /\ p[1] = SLASH

\* path.normalize
PathNormalize(p) ==
  IF p = <<>> THEN <<DOT>>
  ELSE LET abs   == IsAbsolute(p)
           trail == p[Len(p)] = SLASH
           body  == JoinSegs(NormalizeSegs(Split(p), <<>>, ~abs))
       IN IF body = <<>>
          THEN IF abs THEN <<SLASH>> ELSE IF trail THEN <<DOT, SLASH>> ELSE <<DOT>>
          ELSE (IF abs THEN <<SLASH>> ELSE <<>>) \o body \o (IF trail THEN <<SLASH>> ELSE <<>>)

\* path.join(a, b): the non-empty arguments joined by '/', then normalized
PathJoin(a, b) ==
  IF a = <<>> /\ b = <<>> THEN <<DOT>>
  ELSE IF a = <<>> THEN PathNormalize(b)
  ELSE IF b = <<>> THEN PathNormalize(a)
  ELSE PathNormalize(a \o <<SLASH>> \o b)

\* path.resolve(p) with process.cwd() = cwd: absolute, normalized, no trailing slash
PathResolve(cwd, p) ==
  LET full == IF IsAbsolute(p) THEN p
              ELSE IF p = <<>> THEN cwd ELSE cwd \o <<SLASH>> \o p
  IN <<SLASH>> \o JoinSegs(NormalizeSegs(Split(full), <<>>, FALSE))

-----------------------------------------------------------------------------
(* GET /labels/:filename *)

Cwd == <<SLASH, "a">>

\* The names that occur on the disk and in requests.  lx is a sibling of the
\* save directory l whose name starts with the save directory's name.
SegNames == { DOTDOT, <<"l">>, <<"l", "x">>, <<"e">>, <<"f">> }

MaxSegs == 3

RECURSIVE SegSeqs(_)
SegSeqs(n) ==
  IF n = 0 THEN { <<>> }
  ELSE SegSeqs(n - 1) \cup
       { Append(q, x) : q \in { r \in SegSeqs(n - 1) : Len(r) = n - 1 }, x \in SegNames }

\* a name with a character above 0xFF
WideName == << "U+0100" >>

\* req.params.filename: any decoded parameter (%2F decodes to '/'), never empty
Filenames == { JoinSegs(q) : q \in SegSeqs(MaxSegs) \ { <<>> } } \cup { WideName }

\* the files that may exist: one in the save directory, one in the sibling
\* directory, one elsewhere; one in the save directory with the wide name
FileInside  == <<SLASH, "a", SLASH, "l", SLASH, "f">>
FileSibling == <<SLASH, "a", SLASH, "l", "x", SLASH, "f">>
FileOutside == <<SLASH, "e", SLASH, "f">>
FileWide    == <<SLASH, "a", SLASH, "l", SLASH>> \o WideName
AllFiles == { FileInside, FileSibling, FileOutside }

SaveDirectories == { <<DOT, SLASH, "l">>, <<SLASH, "a", SLASH, "l">> }

\* the directories of a disk: every proper ancestor of a file, and the root
RECURSIVE Ancestors(_)
Ancestors(segs) ==
  IF segs = <<>> THEN { <<>> }
  ELSE { segs } \cup Ancestors(SubSeq(segs, 1, Len(segs) - 1))

AbsSegs(p) == NormalizeSegs(Split(p), <<>>, FALSE)

DirsOf(files) ==
  UNION { Ancestors(SubSeq(a, 1, Len(a) - 1)) : a \in { AbsSegs(f) : f \in files } }

IsFile(files, abs) == \E f \in files : AbsSegs(f) = AbsSegs(abs)
\* the directories that exist: the ancestors of the files, the working
\* directory, and the directories that were made (dirs)
IsDir(files, dirs, abs)  ==
  AbsSegs(abs) \in DirsOf(files) \cup Ancestors(AbsSegs(Cwd)) \cup dirs

\* the disk: absolute path -> a file with its contents, or a directory, and
\* the two times of fs.Stats.  The directories that hold an entry, the working
\* directory and, once made, the save directory are there without an entry.
FileRec(data, birthtime, mtime) ==
  [dir |-> FALSE, data |-> data, birthtime |-> birthtime, mtime |-> mtime]
DirRec(birthtime, mtime) ==
  [dir |-> TRUE, data |-> <<>>, birthtime |-> birthtime, mtime |-> mtime]

\* the regular files of a disk, and its directories as segment sequences
FilesOf(disk) == { q \in DOMAIN disk : ~disk[q].dir }
DirSegsOf(disk) == UNION { Ancestors(AbsSegs(q)) : q \in { r \in DOMAIN disk : disk[r].dir } }

\* the directories of the disk of a printer whose constructor has run: the
\* save directory is there, unless its path is a regular file
DirsWithSaveDir(disk, dir) ==
  DirSegsOf(disk) \cup
  (IF PathResolve(Cwd, dir) \in FilesOf(disk) THEN {}
   ELSE Ancestors(AbsSegs(PathResolve(Cwd, dir))))

\* the path walk of the operating system (no symbolic links) over the files
\* and the directories of the disk, as segment sequences: each component is
\* looked up in the directory reached so far; a component after a file is
\* ENOTDIR, a name that is not there is ENOENT
RECURSIVE WalkPath(_, _, _, _)
WalkPath(fileSegs, dirSegs, cur, segs) ==
  IF segs = <<>> THEN [found |-> TRUE, at |-> cur]
  ELSE IF cur \notin dirSegs THEN [found |-> FALSE, at |-> cur]
  ELSE LET h == Head(segs) IN
       IF h = <<>> \/ h = <<DOT>> THEN WalkPath(fileSegs, dirSegs, cur, Tail(segs))
       ELSE IF h = DOTDOT
       THEN WalkPath(fileSegs, dirSegs,
                     IF cur = <<>> THEN cur ELSE SubSeq(cur, 1, Len(cur) - 1), Tail(segs))
       ELSE LET next == Append(cur, h)
            IN IF next \in fileSegs \/ next \in dirSegs
               THEN WalkPath(fileSegs, dirSegs, next, Tail(segs))
               ELSE [found |-> FALSE, at |-> cur]

\* fs.existsSync(p): the path is followed on the disk from the working
\* directory (from the root when absolute); the empty path does not exist
ExistsSync(files, dirs, p) ==
  /\ p # <<>>
  /\ WalkPath({ AbsSegs(f) : f \in files },
              DirsOf(files) \cup Ancestors(AbsSegs(Cwd)) \cup dirs,
              IF IsAbsolute(p) THEN <<>> ELSE AbsSegs(Cwd), Split(p)).found

\* the directories besides those that hold a file: those entered on the disk
\* (env.dirs) and, when fs.existsSync(saveDirectory) holds, the save directory
\* that fs.mkdirSync(saveDirectory, { recursive: true }) has made, with its
\* ancestors; a regular file at the path of the save directory exists too,
\* and is no directory
MadeDirs(env, exists) ==
  env.dirs \cup
  (IF exists /\ PathResolve(Cwd, env.saveDirectory) \notin env.files
   THEN Ancestors(AbsSegs(PathResolve(Cwd, env.saveDirectory))) ELSE {})

\* the security check of the route: a prefix test on the two resolved strings
PathCheck(resolvedPath, resolvedSaveDir) == StartsWith(resolvedPath, resolvedSaveDir)

NoRequest == [t |-> "none"]
NoAnswer  == [state |-> "none", status |-> 0, error |-> "", served |-> <<>>,
              stream |-> <<>>, fd |-> "none", opened |-> <<>>]

\* a response sent by the handler itself: the status and the error of the body
Answer(status, error) ==
  [NoAnswer EXCEPT !.state = "sent", !.status = status, !.error = error]

\* the characters that occur in a filename here and that a header value must
\* not hold (checkInvalidHeaderChar, /[^\t\x20-\x7e\x80-\xff]/): the control
\* characters but the tab, DEL, and every code unit above 0xFF.  A character
\* outside ASCII is written by its code point.
InvalidHeaderChars == { "\n", "\r", "\f", "U+0000", "U+007F", "U+0100" }

\* res.setHeader(name, value) throws ERR_INVALID_CHAR for such a value
SetHeaderThrows(value) == \E i \in 1..Len(value) : value[i] \in InvalidHeaderChars

\* the handler of the route, up to its return: the response it sent, or the
\* read stream it created and piped into the response (nothing is written and
\* the status line is not sent before the stream delivers), and the
\* filesystem calls it made.  The Content-Disposition header holds the
\* filename as it came: when setHeader throws, the catch block answers 500
\* with the message and no stream is created.
GetLabel(config, env, exists, filename) ==
  IF config.type # Str(S_virtual)
  THEN [res |-> Answer(400, "Labels endpoint only available for virtual printers"),
        log |-> <<>>]
  ELSE LET filepath        == PathJoin(env.saveDirectory, filename)
           resolvedPath    == PathResolve(Cwd, filepath)
           resolvedSaveDir == PathResolve(Cwd, env.saveDirectory)
       IN IF ~PathCheck(resolvedPath, resolvedSaveDir)
          THEN [res |-> Answer(403, "Access denied: Invalid file path"), log |-> <<>>]
          ELSE IF ~ExistsSync(env.files, MadeDirs(env, exists), filepath)
          THEN [res |-> Answer(404, "File not found"),
                log |-> << [op |-> "existsSync", path |-> resolvedPath] >>]
          ELSE IF SetHeaderThrows(filename)
          THEN [res |-> Answer(500,
                  "Invalid character in header content [\"Content-Disposition\"]"),
                log |-> << [op |-> "existsSync", path |-> resolvedPath] >>]
          ELSE [res |-> [NoAnswer EXCEPT !.state = "piping", !.status = 200,
                                         !.stream = filepath],
                log |-> << [op |-> "existsSync", path |-> resolvedPath],
                           [op |-> "createReadStream", path |-> resolvedPath] >>]

\* the read stream opens its path, in a later turn, as the disk is then: a
\* file or a directory is opened (the descriptor keeps a file that is unlinked
\* afterwards); a path that is gone (ENOENT, ENOTDIR) makes the stream emit
\* 'error', which has no listener: the exception is uncaught, the process
\* exits and the request gets no response
ReadStreamOpen(files, dirs, res) ==
  LET abs == PathResolve(Cwd, res.stream) IN
  IF ~ExistsSync(files, dirs, res.stream) THEN [res EXCEPT !.state = "crashed"]
  ELSE [res EXCEPT !.state = "open",
                   !.fd = IF IsFile(files, abs) THEN "file" ELSE "directory",
                   !.opened = abs]

\* the first read of the opened stream: the contents of the file are written
\* to the response, with the status line; reading a directory is EISDIR, an
\* 'error' without listener again
ReadStreamRead(res) ==
  IF res.fd = "file"
  THEN [res EXCEPT !.state = "streaming", !.served = res.opened]
  ELSE [res EXCEPT !.state = "crashed"]

\* the stream ends: pipe ends the response
ReadStreamEnd(res) == [res EXCEPT !.state = "sent", !.fd = "none"]

\* the save directories that are tried: relative and absolute, the same place
GlEnvs == [saveDirectory : SaveDirectories]

\* the disk as the handler of the route sees it
GlDisk ==
  [saveDirectory |-> glEnv.saveDirectory, files |-> FilesOf(vpDisk),
   dirs |-> DirSegsOf(vpDisk)]

GlInit ==
  /\ glEnv \in GlEnvs
  /\ glReq = NoRequest
  /\ glRes = NoAnswer
  /\ glFsLog = <<>>

GlIdle ==
  /\ glEnv = [saveDirectory |-> <<DOT, SLASH, "l">>]
  /\ glReq = NoRequest
  /\ glRes = NoAnswer
  /\ glFsLog = <<>>

\* GET /labels/:filename is handled
GlRequest ==
  \E filename \in Filenames :
    /\ Running
    /\ glReq = NoRequest
    /\ glReq' = Str(filename)
    /\ \E g \in { GetLabel(rt.config, GlDisk, saveDirExists, filename) } :
         glRes' = g.res /\ glFsLog' = g.log
    /\ UNCHANGED <<glEnv, pfVars, usbVars, tcpVars, vpVars, rtVars, proc>>

\* the list and delete requests that are handled in one run of the server
MaxStoreOps == 2

\* the answer to the last list or delete request, and how many were handled
NoOp == [op |-> "none", arg |-> <<>>, status |-> 0, returned |-> FALSE, error |-> "",
         list |-> <<>>, n |-> 0]

\* the read stream opens
GlOpen ==
  /\ Running
  /\ glRes.state = "piping"
  /\ \E r \in { ReadStreamOpen(GlDisk.files, MadeDirs(GlDisk, saveDirExists), glRes) } :
       /\ glRes' = r
       /\ proc' = IF r.state = "crashed" THEN "exited" ELSE proc
  /\ UNCHANGED <<glEnv, glReq, glFsLog, pfVars, usbVars, tcpVars, vpVars, rtVars>>

\* the opened stream is read
GlRead ==
  LET r == ReadStreamRead(glRes) IN
  /\ Running
  /\ glRes.state = "open"
  /\ glRes' = r
  /\ proc' = IF r.state = "crashed" THEN "exited" ELSE proc
  /\ UNCHANGED <<glEnv, glReq, glFsLog, pfVars, usbVars, tcpVars, vpVars, rtVars>>

\* the stream has delivered the file: the response ends
GlEnd ==
  /\ Running
  /\ glRes.state = "streaming"
  /\ glRes' = ReadStreamEnd(glRes)
  /\ UNCHANGED <<glEnv, glReq, glFsLog, pfVars, usbVars, tcpVars, vpVars, rtVars, proc>>

-----------------------------------------------------------------------------
(* USBPrinter *)

ZebraVendor == 2655   \* 0x0a5f
OtherVendor == ZebraVendor + 1   \* some other vendor's id

\* the USBPrinter instances: the route makes one per request
UsbInsts == { 1, 2 }

\* an attached device as the usb library presents it
DeviceKinds ==
  [vendor : { ZebraVendor, OtherVendor }, product : { 1, 2 },
   endpoints : { <<"in", "out">>, <<"in">> }, kernelActive : BOOLEAN]

Attach(k) ==
  [vendor |-> k.vendor, product |-> k.product, endpoints |-> k.endpoints,
   kernelActive |-> k.kernelActive, open |-> FALSE, claimed |-> FALSE, pending |-> 0]

RECURSIVE DeviceLists(_)
DeviceLists(n) ==
  IF n = 0 THEN { <<>> }
  ELSE DeviceLists(n - 1) \cup
       { Append(q, Attach(k)) : q \in { r \in DeviceLists(n - 1) : Len(r) = n - 1 },
                                k \in DeviceKinds }

NoEndpoint    == [t |-> "null"]
UndefEndpoint == [t |-> "undefined"]
Endpoint(d, i) == [t |-> "endpoint", dev |-> d, idx |-> i]

\* the first of a set of indices, 0 when there is none
FirstIndex(idx) ==
  IF idx = {} THEN 0 ELSE CHOOSE i \in idx : \A j \in idx : i <= j

\* usb.findByIds(vid, pid): the first device with both identifiers, or undefined (0)
FindByIds(devices, vid, pid) ==
  FirstIndex({ i \in 1..Len(devices) : devices[i].vendor = vid /\ devices[i].product = pid })

\* findPrinter: [found, device], device being the new value of this.device
FindPrinter(devices, cfg, device) ==
  LET exact  == IF Truthy(cfg.productId)
                THEN FindByIds(devices, cfg.vendorId, cfg.productId.n) ELSE 0
      dev1   == IF Truthy(cfg.productId) THEN exact ELSE device
      first  == FirstIndex({ i \in 1..Len(devices) : devices[i].vendor = cfg.vendorId })
  IN IF Truthy(cfg.productId) /\ exact # 0
     THEN [found |-> TRUE, device |-> exact]
     ELSE IF first # 0
          THEN [found |-> TRUE, device |-> first]
          ELSE [found |-> FALSE, device |-> dev1]

NoTrace ==
  [openInvoked |-> FALSE, openOk |-> FALSE, detachInvoked |-> FALSE,
   claimInvoked |-> FALSE, claimOk |-> FALSE, endpointFound |-> FALSE, error |-> ""]

\* initializeDevice: the bus and this.endpoint after it, what it invoked, and the
\* error it threw ("" when none).  env says which library calls fail: open,
\* interface(0), detachKernelDriver, claim.
InitializeDevice(devices, d, endpoint, env) ==
  IF d = 0
  THEN [devices |-> devices, endpoint |-> endpoint,
        trace |-> [NoTrace EXCEPT !.error = "No USB printer device found"]]
  ELSE IF env.openThrows
  THEN [devices |-> devices, endpoint |-> endpoint,
        trace |-> [NoTrace EXCEPT !.openInvoked = TRUE, !.error = "LIBUSB_ERROR_ACCESS"]]
  ELSE LET opened   == [devices EXCEPT ![d].open = TRUE]
           detach   == opened[d].kernelActive
           detached == [opened EXCEPT ![d].kernelActive = FALSE]
           t0       == [NoTrace EXCEPT !.openInvoked = TRUE, !.openOk = TRUE]
           t1       == [t0 EXCEPT !.detachInvoked = detach, !.claimInvoked = TRUE]
       IN IF env.interfaceThrows
          THEN [devices |-> opened, endpoint |-> endpoint,
                trace |-> [t0 EXCEPT !.error = "Interface not found for number: 0"]]
          ELSE IF detach /\ env.detachThrows
          THEN [devices |-> opened, endpoint |-> endpoint,
                trace |-> [t0 EXCEPT !.detachInvoked = TRUE,
                                     !.error = "LIBUSB_ERROR_NOT_SUPPORTED"]]
          ELSE IF env.claimThrows
          THEN [devices |-> detached, endpoint |-> endpoint,
                trace |-> [t1 EXCEPT !.error = "LIBUSB_ERROR_BUSY"]]
          ELSE LET claimed == [detached EXCEPT ![d].claimed = TRUE]
                   eps     == claimed[d].endpoints
                   out     == FirstIndex({ e \in 1..Len(eps) : eps[e] = "out" })
               IN IF out = 0
                  THEN [devices |-> claimed, endpoint |-> UndefEndpoint,
                        trace |-> [t1 EXCEPT !.claimOk = TRUE,
                                             !.error = "No OUT endpoint found on USB device"]]
                  ELSE [devices |-> claimed, endpoint |-> Endpoint(d, out),
                        trace |-> [t1 EXCEPT !.claimOk = TRUE, !.endpointFound = TRUE]]

\* what `this.initializeDevice()` without await lets the caller's try block see:
\* the function is async, so an error thrown in it rejects the promise it
\* returns and never reaches the catch of print
InitErrorSeenByPrint(error) == ""

Pending       == [kind |-> "pending"]
Resolved(v)   == [kind |-> "resolved", value |-> v]
Rejected(e)   == [kind |-> "rejected", error |-> e]

IdleCall ==
  [n |-> 0, phase |-> "idle", outcome |-> Pending, found |-> FALSE, trace |-> NoTrace,
   transferIssued |-> FALSE, transferDev |-> 0, callback |-> "none",
   closeInvoked |-> FALSE, closeThrew |-> FALSE, transfers |-> 0]

\* device.close(): throws when the device is not open or a transfer is pending
CloseThrows(dev) == ~dev.open \/ dev.pending > 0

Close(dev) ==
  IF CloseThrows(dev) THEN dev ELSE [dev EXCEPT !.open = FALSE, !.claimed = FALSE]

\* the synchronous part of print, up to the submission of the transfer
PrintSync(devices, cfg, inst, call, env) ==
  LET fp == FindPrinter(devices, cfg, inst.device)
      c0 == [IdleCall EXCEPT !.n = call.n + 1, !.found = fp.found]
  IN IF ~fp.found
     THEN [devices |-> devices,
           inst |-> [inst EXCEPT !.device = fp.device],
           call |-> [c0 EXCEPT !.phase = "settled",
                               !.outcome = Rejected("Zebra printer not found via USB")]]
     ELSE LET init == InitializeDevice(devices, fp.device, inst.endpoint, env)
              seen == InitErrorSeenByPrint(init.trace.error)
              ep   == init.endpoint
              i1   == [device |-> fp.device, endpoint |-> ep]
              c1   == [c0 EXCEPT !.trace = init.trace]
          IN IF seen # ""
             THEN [devices |-> init.devices, inst |-> i1,
                   call |-> [c1 EXCEPT !.phase = "settled", !.outcome = Rejected(seen)]]
             ELSE IF ep.t # "endpoint"
             THEN \* this.endpoint.transfer on null or undefined
                  [devices |-> init.devices, inst |-> i1,
                   call |-> [c1 EXCEPT !.phase = "settled",
                                       !.outcome = Rejected("TypeError: cannot read 'transfer'")]]
             ELSE IF ~init.devices[ep.dev].open /\ env.submitThrows
             THEN \* the library refuses a transfer on a device that is not open
                  [devices |-> init.devices, inst |-> i1,
                   call |-> [c1 EXCEPT !.phase = "settled",
                                       !.outcome = Rejected("Device is not opened")]]
             ELSE [devices |-> [init.devices EXCEPT ![ep.dev].pending = @ + 1],
                   inst |-> i1,
                   call |-> [c1 EXCEPT !.phase = "pending", !.transferIssued = TRUE,
                                       !.transferDev = ep.dev, !.transfers = @ + 1]]

\* the transfer callback: settle, then close this.device
TransferCallback(devices, inst, call, error) ==
  LET done == [devices EXCEPT ![call.transferDev].pending = @ - 1]
      d    == inst.device
  IN [devices |-> [done EXCEPT ![d] = Close(done[d])],
      call |-> [call EXCEPT !.phase = "settled",
                            !.outcome = IF error THEN Rejected("LIBUSB_TRANSFER_ERROR")
                                        ELSE Resolved("Print job sent successfully via USB"),
                            !.callback = IF error THEN "error" ELSE "ok",
                            !.closeInvoked = TRUE,
                            !.closeThrew = CloseThrows(done[d])]]

UsbCfgs == [vendorId : { ZebraVendor }, productId : { Null, Num(1), Num(2) }]
UsbEnvs ==
  [openThrows : BOOLEAN, interfaceThrows : BOOLEAN, detachThrows : BOOLEAN,
   claimThrows : BOOLEAN, submitThrows : BOOLEAN]

\* at most one device attached
UsbInitOneDevice ==
  /\ usbBus \in DeviceLists(1)
  /\ usbCfg \in UsbCfgs
  /\ usbInst = [i \in UsbInsts |-> [device |-> 0, endpoint |-> NoEndpoint]]
  /\ usbCall = [i \in UsbInsts |-> IdleCall]

UsbInit ==
  /\ usbBus \in DeviceLists(MaxDevices)
  /\ usbCfg \in UsbCfgs
  /\ usbInst = [i \in UsbInsts |-> [device |-> 0, endpoint |-> NoEndpoint]]
  /\ usbCall = [i \in UsbInsts |-> IdleCall]

UsbIdle ==
  /\ usbBus = <<>>
  /\ usbCfg = [vendorId |-> ZebraVendor, productId |-> Null]
  /\ usbInst = [i \in UsbInsts |-> [device |-> 0, endpoint |-> NoEndpoint]]
  /\ usbCall = [i \in UsbInsts |-> IdleCall]

\* print(data), up to its return.  When initializeDevice threw, the promise it
\* returned is rejected and nobody handles it: the process ends with exit code
\* 1 once the current turn is over.
UsbPrint(i) ==
  \E env \in UsbEnvs :
    LET r == PrintSync(usbBus, usbCfg, usbInst[i], usbCall[i], env) IN
    /\ Running
    /\ usbCall[i].phase # "pending"
    /\ usbCall[i].n < MaxUsbCalls
    /\ usbBus' = r.devices
    /\ usbInst' = [usbInst EXCEPT ![i] = r.inst]
    /\ usbCall' = [usbCall EXCEPT ![i] = r.call]
    /\ proc' = IF r.call.trace.error # "" THEN "exiting" ELSE proc
    /\ UNCHANGED <<usbCfg, pfVars, glVars, tcpVars, vpVars, rtVars>>

UsbTransferDone(i) ==
  \E error \in BOOLEAN :
    LET r == TransferCallback(usbBus, usbInst[i], usbCall[i], error) IN
    /\ Running
    /\ usbCall[i].phase = "pending"
    /\ usbBus' = r.devices
    /\ usbCall' = [usbCall EXCEPT ![i] = r.call]
    /\ UNCHANGED <<usbCfg, usbInst, pfVars, glVars, tcpVars, vpVars, rtVars, proc>>


-----------------------------------------------------------------------------
(* TCPPrinter, both variants of the file *)

\* the 5000 ms variant resolves with the Buffer, the 100 ms variant with
\* response.toString('ascii')
TcpVariants == { [timeout |-> 5000, ascii |-> FALSE], [timeout |-> 100, ascii |-> TRUE] }

\* the bytes a printer may answer with: one below 0x80, one above
RespBytes == { 65, 200 }

RECURSIVE ByteSeqs(_)
ByteSeqs(n) ==
  IF n = 0 THEN { <<>> }
  ELSE ByteSeqs(n - 1) \cup
       { Append(q, b) : q \in { r \in ByteSeqs(n - 1) : Len(r) = n - 1 }, b \in RespBytes }

Responses == ByteSeqs(MaxRespLen) \ { <<>> }

Payloads == { <<94, 88, 65>>, <<126, 72, 83>> }   \* "^XA", "~HS"

Buffer(bytes) == [t |-> "buffer", bytes |-> bytes]
Text(codes)   == [t |-> "string", codes |-> codes]
Message(m)    == [t |-> "message", text |-> m]

\* Buffer.prototype.toString('ascii'): every byte with its high bit cleared
ToStringAscii(bytes) == Text([i \in 1..Len(bytes) |-> bytes[i] % 128])

\* the value the 'data' handler passes to resolve
DataValue(variant, response) ==
  IF variant.ascii THEN ToStringAscii(response) ELSE Buffer(response)

\* resolve / reject of a promise: only the first call settles it
Settle(outcome, new) == IF outcome = Pending THEN new ELSE outcome

\* client.destroy(): the socket is destroyed at once, 'close' is emitted later
Destroy(t) ==
  IF t.sock = "destroyed" THEN t
  ELSE [t EXCEPT !.sock = "destroyed", !.closePending = TRUE]

\* the 'data' handler without client.destroy()
OnDataNoDestroy(t, response) ==
  [t EXCEPT !.outcome = Settle(t.outcome, Resolved(DataValue(t.variant, response)))]

\* the 'data' handler that closes the socket and leaves the answer to 'close'
OnDataNoResolve(t, response) == Destroy(t)

\* client.on('data', ...)
OnData(t, response) ==
  [Destroy(t) EXCEPT !.outcome = Settle(t.outcome, Resolved(DataValue(t.variant, response)))]

\* client.on('close', ...)
OnClose(t) ==
  [t EXCEPT !.outcome = Settle(t.outcome, Resolved(Message("Print job sent successfully")))]

\* the 'error' handler that only logs
OnErrorLogOnly(t, err) == t

\* client.on('error', ...)
OnError(t, err) ==
  [t EXCEPT !.outcome = Settle(t.outcome, Rejected(err))]

\* the timer callback that treats the expiry as a failure
OnTimeoutRejects(t) ==
  IF t.sock # "destroyed"
  THEN [Destroy(t) EXCEPT !.outcome = Settle(t.outcome, Rejected("timeout"))]
  ELSE t

\* the setTimeout callback
OnTimeout(t) ==
  IF t.sock # "destroyed"
  THEN [Destroy(t) EXCEPT !.outcome = Settle(t.outcome, Resolved(Message("Print job sent (timeout)")))]
  ELSE t

\* the connect callback: client.write(data)
OnConnect(t) == [t EXCEPT !.written = t.payload]

TcpIdleCall(variant) ==
  [variant |-> variant, phase |-> "idle", sock |-> "none", payload |-> <<>>,
   written |-> <<>>, timer |-> "none", outcome |-> Pending,
   errorPending |-> FALSE, closePending |-> FALSE, closeEmitted |-> FALSE,
   err |-> "", resp |-> <<>>, first |-> "none", sockets |-> 0]

First(t, ev) == IF t.first = "none" THEN ev ELSE t.first

TcpInit == tcp \in { TcpIdleCall(v) : v \in TcpVariants }

TcpIdle == tcp = TcpIdleCall([timeout |-> 5000, ascii |-> FALSE])

\* print(data): new net.Socket(), connect, the handlers, the timer
TcpPrint ==
  \E data \in Payloads :
    /\ Running
    /\ tcp.phase = "idle"
    /\ tcp' = [tcp EXCEPT !.phase = "active", !.sock = "connecting", !.payload = data,
                          !.timer = "armed", !.sockets = @ + 1]
    /\ UNCHANGED <<pfVars, glVars, usbVars, vpVars, rtVars, proc>>

\* the connection is established
TcpConnected ==
  /\ Running
  /\ tcp.sock = "connecting"
  /\ tcp' = OnConnect([tcp EXCEPT !.sock = "open"])
  /\ UNCHANGED <<pfVars, glVars, usbVars, vpVars, rtVars, proc>>

\* response bytes arrive on the open socket
TcpData ==
  \E response \in Responses :
    /\ Running
    /\ tcp.sock = "open"
    /\ tcp' = OnData([tcp EXCEPT !.resp = response, !.first = First(tcp, "data")], response)
    /\ UNCHANGED <<pfVars, glVars, usbVars, vpVars, rtVars, proc>>

\* the peer closes the connection: its FIN is read, 'end' is emitted (no
\* handler) and the socket ends its own side, which waits for the write that
\* is pending; the socket is not destroyed yet
TcpPeerClose ==
  /\ Running
  /\ tcp.sock = "open"
  /\ tcp' = [tcp EXCEPT !.sock = "ending", !.first = First(tcp, "close")]
  /\ UNCHANGED <<pfVars, glVars, usbVars, vpVars, rtVars, proc>>

\* the pending write is flushed and the socket's own side is shut down: both
\* sides have ended, the socket is destroyed, 'close' is emitted later
TcpFinish ==
  /\ Running
  /\ tcp.sock = "ending"
  /\ tcp' = Destroy(tcp)
  /\ UNCHANGED <<pfVars, glVars, usbVars, vpVars, rtVars, proc>>

\* the errors of a socket in each state: connecting is refused, or the peer
\* resets the connection as soon as it has accepted it, before 'connect' is
\* emitted; an open connection is reset by the peer; after the peer's FIN the
\* pending write meets a closed connection (EPIPE) or a reset
SocketErrors(sock) ==
  CASE sock = "connecting" -> { "ECONNREFUSED", "ECONNRESET" }
    [] sock = "open"       -> { "ECONNRESET" }
    [] sock = "ending"     -> { "EPIPE", "ECONNRESET" }
    [] OTHER               -> {}

\* connecting fails or the connection breaks: the socket is destroyed with the error
TcpError ==
  \E err \in SocketErrors(tcp.sock) :
    /\ Running
    /\ tcp' = [tcp EXCEPT !.sock = "destroyed", !.errorPending = TRUE, !.closePending = TRUE,
                          !.err = err, !.first = First(tcp, "error")]
  /\ UNCHANGED <<pfVars, glVars, usbVars, vpVars, rtVars, proc>>

\* 'error' is emitted
TcpEmitError ==
  /\ Running
  /\ tcp.errorPending
  /\ tcp' = OnError([tcp EXCEPT !.errorPending = FALSE], tcp.err)
  /\ UNCHANGED <<pfVars, glVars, usbVars, vpVars, rtVars, proc>>

\* 'close' is emitted, after 'error' when there was one
TcpEmitClose ==
  /\ Running
  /\ tcp.closePending
  /\ ~tcp.errorPending
  /\ tcp' = OnClose([tcp EXCEPT !.closePending = FALSE, !.closeEmitted = TRUE])
  /\ UNCHANGED <<pfVars, glVars, usbVars, vpVars, rtVars, proc>>

\* the timer expires
TcpTimeout ==
  /\ Running
  /\ tcp.timer = "armed"
  /\ tcp' = OnTimeout([tcp EXCEPT !.timer = "fired", !.first = First(tcp, "timeout")])
  /\ UNCHANGED <<pfVars, glVars, usbVars, vpVars, rtVars, proc>>

-----------------------------------------------------------------------------
(* VirtualPrinter: the HTTP relay and the artifact store *)

S_png   == <<"p","n","g">>
S_pdf   == <<"p","d","f">>
S_json  == <<"j","s","o","n">>
S_label == <<"label_">>   \* the prefix, kept as one symbol

VpCalls == { 1, 2 }

\* options.outputFormat as configured
OutputFormats == { Undef, Str(S_pdf), Str(S_json), Str(<<"P","D","F">>) }

\* the constructor: options.outputFormat || 'png', options.saveDirectory || ...
VirtualPrinter(options) ==
  [outputFormat  |-> IF Truthy(options.outputFormat) THEN options.outputFormat.s ELSE S_png,
   saveDirectory |-> IF Truthy(options.saveDirectory) THEN options.saveDirectory.s
                     ELSE <<DOT, SLASH, "l">>]

\* new Date().toISOString() within one second: the milliseconds are the clock
ToISOString(now) == <<"T", ":", DOT, ToString(now), "Z">>

\* .replace(/[:.]/g, '-')
ReplaceColonDot(s) == [i \in 1..Len(s) |-> IF s[i] = ":" \/ s[i] = DOT THEN "-" ELSE s[i]]

\* generateFilename: the extension is chosen by a case-sensitive comparison
GenerateFilename(outputFormat, now) ==
  LET timestamp == ReplaceColonDot(ToISOString(now))
      extension == IF outputFormat = S_pdf THEN S_pdf
                   ELSE IF outputFormat = S_json THEN S_json ELSE S_png
  IN S_label \o timestamp \o <<DOT>> \o extension

\* getAcceptHeader: the switch is on the lower-cased format
GetAcceptHeader(outputFormat) ==
  LET k == ToLowerCase(outputFormat) IN
  IF k = S_pdf THEN "application/pdf"
  ELSE IF k = S_json THEN "application/json" ELSE "image/png"

\* the UTF-16 code units of a code point: itself, or a surrogate pair
CodeUnits(cp) ==
  IF cp < 65536 THEN <<cp>>
  ELSE <<55296 + ((cp - 65536) \div 1024), 56320 + ((cp - 65536) % 1024)>>

\* the UTF-8 decoder: cp is the code point read so far, needed the number of
\* continuation bytes still to come, lower..upper the range of the next one.
\* A byte that cannot start or continue a sequence gives U+FFFD; a byte that
\* breaks a sequence is read again as the start of the next.
RECURSIVE Utf8Decode(_, _, _, _, _)
Utf8Decode(bytes, cp, needed, lower, upper) ==
  IF bytes = <<>> THEN (IF needed > 0 THEN <<65533>> ELSE <<>>)
  ELSE LET b    == Head(bytes)
           rest == Tail(bytes)
       IN IF needed = 0
          THEN IF b < 128 THEN <<b>> \o Utf8Decode(rest, 0, 0, 128, 191)
               ELSE IF b \in 194..223 THEN Utf8Decode(rest, b - 192, 1, 128, 191)
               ELSE IF b \in 224..239
               THEN Utf8Decode(rest, b - 224, 2,
                               IF b = 224 THEN 160 ELSE 128, IF b = 237 THEN 159 ELSE 191)
               ELSE IF b \in 240..244
               THEN Utf8Decode(rest, b - 240, 3,
                               IF b = 240 THEN 144 ELSE 128, IF b = 244 THEN 143 ELSE 191)
               ELSE <<65533>> \o Utf8Decode(rest, 0, 0, 128, 191)
          ELSE IF b \notin lower..upper
          THEN <<65533>> \o Utf8Decode(bytes, 0, 0, 128, 191)
          ELSE IF needed = 1
          THEN CodeUnits(cp * 64 + (b - 128)) \o Utf8Decode(rest, 0, 0, 128, 191)
          ELSE Utf8Decode(rest, cp * 64 + (b - 128), needed - 1, 128, 191)

\* Buffer.prototype.toString(): the bytes decoded as UTF-8, as UTF-16 code units
ToStringUtf8(bytes) == Utf8Decode(bytes, 0, 0, 128, 191)

\* the bytes fs.writeFileSync(path, string, 'utf8') writes: a surrogate pair is
\* one code point of four bytes, a surrogate alone is written as U+FFFD
RECURSIVE Utf8Encode(_)
Utf8Encode(codes) ==
  IF codes = <<>> THEN <<>>
  ELSE LET c == Head(codes) IN
       IF c \in 55296..56319 /\ Len(codes) >= 2 /\ codes[2] \in 56320..57343
       THEN LET cp == 65536 + (c - 55296) * 1024 + (codes[2] - 56320) IN
            <<240 + (cp \div 262144), 128 + ((cp \div 4096) % 64),
              128 + ((cp \div 64) % 64), 128 + (cp % 64)>>
            \o Utf8Encode(Tail(Tail(codes)))
       ELSE (IF c \in 55296..57343 THEN <<239, 191, 189>>
             ELSE IF c < 128 THEN <<c>>
             ELSE IF c < 2048 THEN <<192 + (c \div 64), 128 + (c % 64)>>
             ELSE <<224 + (c \div 4096), 128 + ((c \div 64) % 64), 128 + (c % 64)>>)
            \o Utf8Encode(Tail(codes))

\* what the 'end' handler hands to writeFileSync
FileBytes(outputFormat, data) ==
  IF outputFormat = S_json THEN Utf8Encode(ToStringUtf8(data)) ELSE data

\* fs.writeFileSync throws whatever else happens: the save directory's path is
\* a regular file (ENOTDIR) or the path to write is a directory (EISDIR)
WriteMustThrow(disk, dir, p) ==
  \/ PathResolve(Cwd, dir) \in FilesOf(disk)
  \/ PathResolve(Cwd, p) \in DOMAIN disk \ FilesOf(disk)

\* fs.writeFileSync: creates the file, or replaces the contents of an existing
\* one, whose birthtime stays
WriteFileSync(disk, p, bytes, birthtime, mtime) ==
  LET abs == PathResolve(Cwd, p) IN
  [q \in DOMAIN disk \cup { abs } |->
     IF q # abs THEN disk[q]
     ELSE IF abs \in DOMAIN disk THEN FileRec(bytes, disk[abs].birthtime, mtime)
          ELSE FileRec(bytes, birthtime, mtime)]

\* fs.unlinkSync: the entry is removed and its directory stays; a directory
\* that nothing else holds on the disk (no other entry in it, not among dirs,
\* the directories that are there without an entry) is entered as empty
UnlinkSync(disk, dirs, p) ==
  LET abs    == PathResolve(Cwd, p)
      rest   == [q \in DOMAIN disk \ { abs } |-> disk[q]]
      up     == SubSeq(AbsSegs(abs), 1, Len(AbsSegs(abs)) - 1)
      parent == <<SLASH>> \o JoinSegs(up)
      held   == DirsOf(DOMAIN rest) \cup DirSegsOf(rest) \cup Ancestors(AbsSegs(Cwd))
                  \cup dirs
  IN IF up \in held THEN rest
     ELSE [q \in DOMAIN rest \cup { parent } |->
             IF q = parent THEN DirRec(0, 0) ELSE rest[q]]

NaN == [t |-> "NaN"]

\* a number of 2^31 or more (Infinity included): its value is not computed
LargeNum(negative) == [t |-> "large", negative |-> negative]

\* the value of a character as a digit, up to base 16; -1 when it is none
DigitOf(c) ==
  CASE c = "0" -> 0 [] c = "1" -> 1 [] c = "2" -> 2 [] c = "3" -> 3 [] c = "4" -> 4
    [] c = "5" -> 5 [] c = "6" -> 6 [] c = "7" -> 7 [] c = "8" -> 8 [] c = "9" -> 9
    [] c = "a" \/ c = "A" -> 10 [] c = "b" \/ c = "B" -> 11 [] c = "c" \/ c = "C" -> 12
    [] c = "d" \/ c = "D" -> 13 [] c = "e" \/ c = "E" -> 14 [] c = "f" \/ c = "F" -> 15
    [] OTHER -> -1

\* whether c is a digit of the base
IsDigit(c, radix) == DigitOf(c) >= 0 /\ DigitOf(c) < radix

\* the value of the longest prefix of s made of digits of the base, continuing
\* acc; -1 once the value is 2^31 or more
RECURSIVE ParseDigits(_, _, _)
ParseDigits(s, acc, radix) ==
  IF s = <<>> \/ ~IsDigit(Head(s), radix) THEN acc
  ELSE IF acc = -1 \/ acc > (2147483647 - DigitOf(Head(s))) \div radix
  THEN ParseDigits(Tail(s), -1, radix)
  ELSE ParseDigits(Tail(s), radix * acc + DigitOf(Head(s)), radix)

\* the white space and line terminators that parseInt skips.  A character
\* that has no printable ASCII form is written by the name of its code point.
WhiteSpace ==
  { " ", "\t", "\n", "\r", "\f", "U+000B", "U+00A0", "U+1680", "U+2000", "U+2001",
    "U+2002", "U+2003", "U+2004", "U+2005", "U+2006", "U+2007", "U+2008", "U+2009",
    "U+200A", "U+2028", "U+2029", "U+202F", "U+205F", "U+3000", "U+FEFF" }

\* s without its leading white space
RECURSIVE TrimStart(_)
TrimStart(s) == IF s # <<>> /\ Head(s) \in WhiteSpace THEN TrimStart(Tail(s)) ELSE s

\* parseInt(s) without a radix: leading white space is skipped, then an
\* optional sign, then 0x or 0X and hexadecimal digits, or decimal digits; what
\* follows the digits is ignored; NaN when there is no digit
ParseInt(s) ==
  LET t      == TrimStart(s)
      signed == t # <<>> /\ (Head(t) = "-" \/ Head(t) = "+")
      neg    == signed /\ Head(t) = "-"
      u      == IF signed THEN Tail(t) ELSE t
      hex    == Len(u) >= 2 /\ u[1] = "0" /\ (u[2] = "x" \/ u[2] = "X")
      body   == IF hex THEN SubSeq(u, 3, Len(u)) ELSE u
      radix  == IF hex THEN 16 ELSE 10
      value  == ParseDigits(body, 0, radix)
  IN IF body = <<>> \/ ~IsDigit(Head(body), radix) THEN NaN
     ELSE IF value = -1 THEN LargeNum(neg)
     ELSE Num(IF neg THEN 0 - value ELSE value)

\* parseInt(res.headers['x-total-count'] || '1')
LabelCount(totalCount) ==
  ParseInt(IF Truthy(totalCount) THEN totalCount.s ELSE <<"1">>)

VpError(msg, status, text) == [msg |-> msg, status |-> status, text |-> text]

VpIdleCall ==
  [phase |-> "idle", req |-> "none", res |-> "none", status |-> 0, data |-> <<>>,
   timer |-> "none", errorPending |-> FALSE, outcome |-> Pending, requests |-> 0,
   accept |-> "", wrote |-> <<>>, timeoutFired |-> FALSE, errorEmitted |-> FALSE,
   totalCount |-> Undef]

\* req.destroy(): the socket is torn down; with no response yet the request
\* emits 'error' (socket hang up) later, a response in progress is aborted
ReqDestroy(c) ==
  [c EXCEPT !.req = "destroyed", !.timer = "none",
            !.errorPending = (c.res = "none"),
            !.res = IF c.res = "open" THEN "aborted" ELSE c.res]

\* the response callback: let data = Buffer.alloc(0); totalCount is the
\* response's x-total-count header
OnResponse(c, status, totalCount) ==
  [c EXCEPT !.res = "open", !.status = status, !.data = <<>>, !.totalCount = totalCount]

\* res.on('data', ...)
OnResData(c, chunk) == [c EXCEPT !.data = c.data \o chunk]

\* what the 'end' handler does with a 200 response: generate the name, write
\* the file, resolve with the result; reject when the write throws
SaveLabel(printer, c, disk, now, birthtime, mtime, savedAt, writeThrows) ==
  LET filename == GenerateFilename(printer.outputFormat, now)
      filepath == PathJoin(printer.saveDirectory, filename)
  IN IF writeThrows \/ WriteMustThrow(disk, printer.saveDirectory, filepath)
     THEN [disk |-> disk,
           call |-> [c EXCEPT !.outcome =
                       Settle(c.outcome, Rejected(VpError("Failed to save file", 0, <<>>)))]]
     ELSE [disk |-> WriteFileSync(disk, filepath, FileBytes(printer.outputFormat, c.data),
                                  birthtime, mtime),
           call |-> [c EXCEPT !.wrote = filepath,
                              !.outcome = Settle(c.outcome, Resolved(
                                [success |-> TRUE,
                                 message |-> "Label processed and saved successfully",
                                 labelCount |-> LabelCount(c.totalCount),
                                 outputFormat |-> printer.outputFormat,
                                 dataSize |-> Len(c.data),
                                 filename |-> filename,
                                 filepath |-> filepath,
                                 savedAt |-> savedAt]))]]

\* the 'end' handler that saves the body whatever the status
OnResEndAnyStatus(printer, c, disk, now, birthtime, mtime, savedAt, writeThrows) ==
  SaveLabel(printer, c, disk, now, birthtime, mtime, savedAt, writeThrows)

\* res.on('end', ...): the call and the disk after it
OnResEnd(printer, c, disk, now, birthtime, mtime, savedAt, writeThrows) ==
  IF c.status = 200
  THEN SaveLabel(printer, c, disk, now, birthtime, mtime, savedAt, writeThrows)
  ELSE [disk |-> disk,
        call |-> [c EXCEPT !.outcome =
                    Settle(c.outcome, Rejected(VpError("Labelary API error", c.status,
                                                        ToStringUtf8(c.data))))]]

\* req.on('error', ...)
OnReqError(c) ==
  [c EXCEPT !.outcome = Settle(c.outcome, Rejected(VpError("Network error", 0, <<>>)))]

\* the timeout callback that only destroys the request
OnReqTimeoutDestroyOnly(c) == ReqDestroy(c)

\* req.setTimeout(10000, ...): req.destroy(), then reject
OnReqTimeout(c) ==
  [ReqDestroy(c) EXCEPT !.outcome = Settle(c.outcome, Rejected(VpError("Request timeout", 0, <<>>)))]

\* the greatest of a non-empty set of numbers
Greatest(S) == CHOOSE i \in S : \A j \in S : j <= i

\* path.extname(p): of the last component of the path (slashes at the end
\* aside), from its last dot; '' when it has no dot, when the last dot leads
\* the component, and for '..'
ExtName(p) ==
  LET ends == { i \in 1..Len(p) : p[i] # SLASH } IN
  IF ends = {} THEN <<>>
  ELSE LET end     == Greatest(ends)
           slashes == { i \in 1..end : p[i] = SLASH }
           base    == SubSeq(p, IF slashes = {} THEN 1 ELSE Greatest(slashes) + 1, end)
           dots    == { i \in 1..Len(base) : base[i] = DOT }
       IN IF dots = {} \/ base = DOTDOT THEN <<>>
          ELSE IF Greatest(dots) = 1 THEN <<>>
          ELSE SubSeq(base, Greatest(dots), Len(base))

\* String.prototype.substring(1)
Substring1(s) == IF s = <<>> THEN <<>> ELSE Tail(s)

\* /\.(png|pdf|json)$/i
IsLabelFile(name) ==
  LET tails == { SubSeq(name, i, Len(name)) : i \in 1..Len(name) } IN
  \E e \in { S_png, S_pdf, S_json } : \E t \in tails : ToLowerCase(t) = <<DOT>> \o e

\* fs.readdirSync(dir) on a directory: the names of its entries, files and
\* directories alike
ReadDirSync(disk, dir) ==
  LET d == PathResolve(Cwd, dir) \o <<SLASH>> IN
  { Head(Split(SubSeq(q, Len(d) + 1, Len(q)))) :
      q \in { r \in DOMAIN disk : StartsWith(r, d) /\ Len(r) > Len(d) } }

\* fs.statSync(p): the entry of the disk; a directory that is there only as
\* the ancestor of an entry has the times of the first instant
StatSync(disk, p) ==
  LET abs == PathResolve(Cwd, p) IN
  IF abs \in DOMAIN disk THEN disk[abs] ELSE DirRec(0, 0)

\* stats.size: the length of a file; a directory has one block
StatSize(stats) == IF stats.dir THEN 4096 ELSE Len(stats.data)

LabelEntry(disk, dir, file) ==
  LET filepath == PathJoin(dir, file)
      stats    == StatSync(disk, filepath)
  IN [filename |-> file, filepath |-> filepath, size |-> StatSize(stats),
      created |-> stats.birthtime, modified |-> stats.mtime,
      extension |-> Substring1(ToLowerCase(ExtName(file)))]

ListReturned(list) == [returned |-> TRUE, error |-> "", list |-> list]
ListThrew(error)   == [returned |-> FALSE, error |-> error, list |-> <<>>]

\* listSavedLabels: [] when existsSync does not find the save directory;
\* otherwise the entries of the directory with a label extension, newest
\* first, or the error of readdirSync when the path is a regular file.  The
\* order of readdirSync is the operating system's, so entries created at the
\* same instant may come in either order: every result the sort can give.
ListSavedLabels(disk, dir, exists) ==
  IF ~exists THEN { ListReturned(<<>>) }
  ELSE IF PathResolve(Cwd, dir) \in FilesOf(disk)
  THEN { ListThrew("Failed to list saved labels: ENOTDIR") }
  ELSE LET entries == { LabelEntry(disk, dir, f) :
                          f \in { g \in ReadDirSync(disk, dir) : IsLabelFile(g) } }
           n == Cardinality(entries)
       IN { ListReturned(s) : s \in { q \in [1..n -> entries] :
              /\ \A i, j \in 1..n : i # j => q[i] # q[j]
              /\ \A i, j \in 1..n : i < j => q[i].created >= q[j].created } }

\* deleteSavedLabel: what it returns or throws, and the disk after it.
\* existsSync follows the joined path on the disk (a component after a file,
\* as in 'name/', is not found); unlinkSync removes a file and refuses a
\* directory.
DeleteSavedLabel(disk, dir, filename) ==
  LET filepath == PathJoin(dir, filename)
      abs      == PathResolve(Cwd, filepath)
  IN IF ~ExistsSync(FilesOf(disk), DirsWithSaveDir(disk, dir), filepath)
     THEN [returned |-> FALSE, error |-> "Failed to delete file: File not found",
           disk |-> disk]
     ELSE IF abs \in FilesOf(disk)
     THEN [returned |-> TRUE, error |-> "",
           disk |-> UnlinkSync(disk, DirsWithSaveDir(disk, dir), filepath)]
     ELSE [returned |-> FALSE, error |-> "Failed to delete file: EISDIR", disk |-> disk]

\* the render service's status codes that are tried
VpStatuses == { 200, 404 }

\* the bytes of a response body that are tried: one that is no character by
\* itself, so that the body as text and the body as bytes are not the same
BodyBytes == { 200 }

\* the x-total-count headers that are tried: none, or a count of three
TotalCounts == { Undef, Str(<<"3">>) }

\* what may be on the disk at the start: nothing; an earlier artifact, a file
\* in the save directory that is no label, a file beside the directory and a
\* directory in the save directory with the name of a label; or a regular file
\* where the save directory should be
OldArtifact == <<SLASH, "a", SLASH, "l", SLASH>> \o GenerateFilename(S_png, 0)
ForeignFile == <<SLASH, "a", SLASH, "l", SLASH, "n", DOT, "t", "x", "t">>
OutsideFile == <<SLASH, "a", SLASH, "x", DOT, "p", "n", "g">>
LabelDir    == <<SLASH, "a", SLASH, "l", SLASH, "d", DOT, "p", "n", "g">>
SaveDirFile == <<SLASH, "a", SLASH, "l">>

VpDisks ==
  { [q \in fs |-> IF q = LabelDir THEN DirRec(0, 0) ELSE FileRec(<<65>>, 0, 0)] :
      fs \in { {}, { OldArtifact, ForeignFile, OutsideFile, LabelDir }, { SaveDirFile } } }

\* what may be on the disk when a label is requested: any of the three files;
\* the file with the wide name, alone or beside the others; a regular file
\* where the save directory should be
GlDisks ==
  { [q \in fs |-> FileRec(<<65>>, 0, 0)] :
      fs \in SUBSET AllFiles \cup { { FileWide }, AllFiles \cup { FileWide }, { SaveDirFile } } }

\* whether the path of the save directory is on the disk, as a directory that
\* holds an entry or as a file
SaveDirOnDisk(disk, dir) ==
  \E q \in DOMAIN disk :
    q = PathResolve(Cwd, dir) \/ StartsWith(q, PathResolve(Cwd, dir) \o <<SLASH>>)

\* the filename parameters of DELETE that are tried: every name in the save
\* directory, the earlier artifact's name with a slash after it, a name that
\* is nowhere, a path out of the directory, the directory itself
VpFilenames(disk, dir) ==
  ReadDirSync(disk, dir)
  \cup { GenerateFilename(S_png, 0) \o <<SLASH>>,
         <<"m", DOT, "p", "n", "g">>, <<DOT, DOT, SLASH, "x", DOT, "p", "n", "g">>, <<DOT>> }

\* the instance the factory makes from printerConfig.virtual: the configured
\* output format and the one configured save directory
PrinterOf(outputFormat) ==
  vpPrinter = VirtualPrinter([outputFormat |-> outputFormat,
                              saveDirectory |-> Str(glEnv.saveDirectory)])

\* no send has been made, no list or delete request handled
VpAtRest ==
  /\ vpCall = [k \in VpCalls |-> VpIdleCall]
  /\ vpClock = 1
  /\ vpOp = NoOp

\* the printers and disks at the start: every output format on the empty
\* disk, every disk under the default format
VpInit ==
  /\ \E f \in OutputFormats, disk \in VpDisks :
       /\ f = Undef \/ disk = << >>
       /\ PrinterOf(f)
       /\ vpDisk = disk
  /\ VpAtRest

VpIdle ==
  /\ PrinterOf(Undef)
  /\ vpDisk = << >>
  /\ VpAtRest

\* POST /print with a configuration for which the factory selects the virtual
\* backend: the constructor makes the save directory when it is not there;
\* when that throws, the catch block of the route gets the error, as it gets
\* the error of a rejected print; otherwise print(zplData): the request is
\* created, written and ended, the timeout armed
VpPrint(k) ==
  \E mkdirThrows \in MkdirOutcomes(saveDirExists) :
    LET made == Construct(CreatePrinter(rt.config), saveDirExists, mkdirThrows) IN
    /\ Running
    /\ vpCall[k].phase = "idle"
    /\ CreatePrinter(rt.config) = Returned("virtual")
    /\ saveDirExists' = made.exists
    /\ vpCall' = [vpCall EXCEPT ![k] =
                    IF made.result.kind = "threw"
                    THEN [@ EXCEPT !.phase = "done",
                                   !.outcome = Rejected(VpError(made.result.error, 0, <<>>))]
                    ELSE [@ EXCEPT !.phase = "active", !.req = "open", !.timer = "armed",
                                   !.requests = @ + 1,
                                   !.accept = GetAcceptHeader(vpPrinter.outputFormat)]]
    /\ UNCHANGED <<vpPrinter, vpDisk, vpClock, vpOp, pfConfig, pfResult, pfBackends,
                   glVars, usbVars, tcpVars, rtVars, proc>>

\* the status line and headers of the response arrive
VpResponse(k) ==
  \E status \in VpStatuses :
   \E totalCount \in IF status = 200 THEN TotalCounts ELSE { Undef } :
    /\ Running
    /\ vpCall[k].req = "open"
    /\ vpCall[k].res = "none"
    /\ vpCall' = [vpCall EXCEPT ![k] = OnResponse(@, status, totalCount)]
    /\ UNCHANGED <<vpPrinter, vpDisk, vpClock, vpOp, pfVars, glVars, usbVars, tcpVars, rtVars, proc>>

\* a chunk of the body arrives
VpData(k) ==
  \E b \in BodyBytes :
    /\ Running
    /\ vpCall[k].res = "open"
    /\ Len(vpCall[k].data) < MaxBodyLen
    /\ vpCall' = [vpCall EXCEPT ![k] = OnResData(@, <<b>>)]
    /\ UNCHANGED <<vpPrinter, vpDisk, vpClock, vpOp, pfVars, glVars, usbVars, tcpVars, rtVars, proc>>

\* the response is complete: 'end'.  For a status of 200 the clock is read for
\* the filename (now) and, after the file is written, for savedAt.  The times
\* of the file are the file system's: its clock is coarser than Date and runs
\* behind it, and the file is created (birthtime) before it is written
\* (mtime).  For another status the clock is not read and nothing is written.
VpEnd(k) ==
  /\ Running
  /\ vpCall[k].res = "open"
  /\ \E writeThrows \in IF vpCall[k].status = 200 THEN BOOLEAN ELSE { FALSE } :
     \E now \in IF vpCall[k].status = 200 THEN vpClock..MaxClock ELSE { vpClock } :
     \E savedAt \in IF vpCall[k].status = 200 /\ ~writeThrows THEN now..MaxClock ELSE { now } :
     \E birthtime \in IF vpCall[k].status = 200 /\ ~writeThrows THEN 0..savedAt ELSE { 0 } :
     \E mtime \in IF vpCall[k].status = 200 /\ ~writeThrows THEN birthtime..savedAt ELSE { 0 } :
     \E r \in { OnResEnd(vpPrinter, vpCall[k], vpDisk, now, birthtime, mtime, savedAt,
                          writeThrows) } :
       /\ vpClock' = IF r.call.wrote # <<>> THEN savedAt ELSE now
       /\ vpCall' = [vpCall EXCEPT ![k] =
                       [r.call EXCEPT !.phase = "done", !.res = "ended", !.req = "done",
                                      !.timer = "none"]]
       /\ vpDisk' = r.disk
  /\ UNCHANGED <<vpPrinter, vpOp, pfVars, glVars, usbVars, tcpVars, rtVars, proc>>

\* the server closes the connection before the body is complete: the response
\* is aborted, 'end' is never emitted and the request emits no 'error'
VpAbort(k) ==
  /\ Running
  /\ vpCall[k].res = "open"
  /\ vpCall' = [vpCall EXCEPT ![k] =
                  [@ EXCEPT !.res = "aborted", !.req = "destroyed", !.timer = "none"]]
  /\ UNCHANGED <<vpPrinter, vpDisk, vpClock, vpOp, pfVars, glVars, usbVars, tcpVars, rtVars, proc>>

\* the connection fails: the socket is destroyed, 'error' is emitted later
VpNetError(k) ==
  /\ Running
  /\ vpCall[k].req = "open"
  /\ vpCall' = [vpCall EXCEPT ![k] =
                  [@ EXCEPT !.req = "destroyed", !.timer = "none", !.errorPending = TRUE,
                            !.res = IF @ = "open" THEN "aborted" ELSE @]]
  /\ UNCHANGED <<vpPrinter, vpDisk, vpClock, vpOp, pfVars, glVars, usbVars, tcpVars, rtVars, proc>>

\* 'error' is emitted on the request
VpEmitError(k) ==
  /\ Running
  /\ vpCall[k].errorPending
  /\ vpCall' = [vpCall EXCEPT ![k] =
                  OnReqError([@ EXCEPT !.errorPending = FALSE, !.errorEmitted = TRUE])]
  /\ UNCHANGED <<vpPrinter, vpDisk, vpClock, vpOp, pfVars, glVars, usbVars, tcpVars, rtVars, proc>>

\* ten seconds without activity on the socket
VpTimeout(k) ==
  /\ Running
  /\ vpCall[k].timer = "armed"
  /\ vpCall' = [vpCall EXCEPT ![k] = OnReqTimeout([@ EXCEPT !.timeoutFired = TRUE])]
  /\ UNCHANGED <<vpPrinter, vpDisk, vpClock, vpOp, pfVars, glVars, usbVars, tcpVars, rtVars, proc>>

\* GET /labels in one turn: 400 for a type other than 'virtual'; otherwise a
\* printer is constructed (the save directory is made when it is not there;
\* 500 when that throws), then listSavedLabels(): 200 with the list, or 500
\* with its error
VpList ==
  \E mkdirThrows \in MkdirOutcomes(saveDirExists) :
    LET made   == Construct(Returned("virtual"), saveDirExists, mkdirThrows)
        answer == [NoOp EXCEPT !.op = "list", !.n = vpOp.n + 1]
    IN /\ Running
       /\ vpOp.n < MaxStoreOps
       /\ IF rt.config.type # Str(S_virtual)
          THEN /\ vpOp' = [answer EXCEPT !.status = 400]
               /\ saveDirExists' = saveDirExists
          ELSE IF made.result.kind = "threw"
          THEN /\ vpOp' = [answer EXCEPT !.status = 500, !.error = made.result.error]
               /\ saveDirExists' = made.exists
          ELSE /\ \E r \in ListSavedLabels(vpDisk, vpPrinter.saveDirectory, made.exists) :
                    vpOp' = [answer EXCEPT !.status = IF r.returned THEN 200 ELSE 500,
                                           !.returned = r.returned, !.error = r.error,
                                           !.list = r.list]
               /\ saveDirExists' = made.exists
       /\ UNCHANGED <<vpPrinter, vpCall, vpDisk, vpClock, pfConfig, pfResult, pfBackends,
                      glVars, usbVars, tcpVars, rtVars, proc>>

\* DELETE /labels/:filename in one turn: 400 for a type other than 'virtual';
\* otherwise a printer is constructed, then deleteSavedLabel(filename): 200,
\* or 500 with the error
DeleteLabel(filename, mkdirThrows) ==
  LET made   == Construct(Returned("virtual"), saveDirExists, mkdirThrows)
      r      == DeleteSavedLabel(vpDisk, vpPrinter.saveDirectory, filename)
      answer == [NoOp EXCEPT !.op = "delete", !.arg = filename, !.n = vpOp.n + 1]
  IN /\ Running
     /\ vpOp.n < MaxStoreOps
     /\ IF rt.config.type # Str(S_virtual)
        THEN /\ vpOp' = [answer EXCEPT !.status = 400]
             /\ UNCHANGED <<saveDirExists, vpDisk>>
        ELSE IF made.result.kind = "threw"
        THEN /\ vpOp' = [answer EXCEPT !.status = 500, !.error = made.result.error]
             /\ saveDirExists' = made.exists
             /\ vpDisk' = vpDisk
        ELSE \E d \in { r } :
               /\ vpOp' = [answer EXCEPT !.status = IF d.returned THEN 200 ELSE 500,
                                         !.returned = d.returned, !.error = d.error]
               /\ saveDirExists' =
                    (made.exists /\ PathResolve(Cwd, vpPrinter.saveDirectory)
                                       \notin DOMAIN vpDisk \ DOMAIN d.disk)
               /\ vpDisk' = d.disk
     /\ UNCHANGED <<vpPrinter, vpCall, vpClock, pfConfig, pfResult, pfBackends,
                    glVars, usbVars, tcpVars, rtVars, proc>>

\* a delete request for one of the names that are tried on the printer's disk
VpDelete ==
  \E filename \in VpFilenames(vpDisk, vpPrinter.saveDirectory),
     mkdirThrows \in MkdirOutcomes(saveDirExists) :
    DeleteLabel(filename, mkdirThrows)

\* the filename parameters of DELETE that are tried while a label is served:
\* the file in the save directory, the one in the sibling directory, one that
\* is nowhere
GlDeleteNames ==
  { <<"f">>, <<DOT, DOT, SLASH, "l", "x", SLASH, "f">>, <<"e">> }

\* a delete request at any time between the steps of GET /labels/:filename
GlDelete ==
  \E filename \in GlDeleteNames, mkdirThrows \in MkdirOutcomes(saveDirExists) :
    DeleteLabel(filename, mkdirThrows)

-----------------------------------------------------------------------------
(* POST /print *)

NoResponse == [status |-> 0]

\* printerConfig: the values of PRINTER_TYPE and PRINTER_HOST that are tried
PrintConfigs ==
  { [type |-> Str(S_tcp), host |-> Str(<<"h">>), port |-> Num(9100)],
    [type |-> Str(S_tcp), host |-> Undef, port |-> Num(9100)],
    [type |-> Str(S_usb), host |-> Undef, port |-> Num(9100)],
    [type |-> Str(S_virtual), host |-> Undef, port |-> Num(9100)],
    [type |-> Str(<<"V","i","r","t","u","a","l">>), host |-> Undef, port |-> Num(9100)],
    [type |-> Str(<<"s","e","r","i","a","l">>), host |-> Undef, port |-> Num(9100)] }

\* the promise of printer.print(printData) of the backend the factory made
PrintOutcome(backend) ==
  CASE backend = "tcp"     -> tcp.outcome
    [] backend = "usb"     -> usbCall[1].outcome
    [] backend = "virtual" -> vpCall[1].outcome

\* what the route sends once `await printer.print(printData)` has settled:
\* the status, and in the body success and, from the catch block, error.message
PrintResponse(outcome) ==
  IF outcome.kind = "resolved"
  THEN [status |-> 200, success |-> TRUE, error |-> ""]
  ELSE [status |-> 500, success |-> FALSE, error |-> outcome.error]

RtIdle == rt = [config |-> [type |-> Str(S_tcp), host |-> Str(<<"h">>), port |-> Num(9100)],
                res |-> NoResponse]

\* the server has started with one of the configurations, no request yet
RtInit == rt \in [config : PrintConfigs, res : { NoResponse }]

\* one request per behaviour; only the backend that printerConfig selects varies
\* The save directory is there when it holds a file; when it holds none it
\* may not have been made yet.
InitPrint ==
  /\ Running
  /\ PfAtRest
  /\ GlIdle
  /\ RtInit
  /\ \/ CreatePrinter(rt.config) = Returned("tcp") /\ TcpInit /\ UsbIdle /\ VpIdle
     \/ CreatePrinter(rt.config) = Returned("usb") /\ TcpIdle /\ UsbInit /\ VpIdle
     \/ CreatePrinter(rt.config) = Returned("virtual") /\ TcpIdle /\ UsbIdle /\ VpInit
     \/ CreatePrinter(rt.config).kind = "threw" /\ TcpIdle /\ UsbIdle /\ VpIdle
  /\ saveDirExists \in { e \in BOOLEAN :
                           /\ e => CreatePrinter(rt.config) = Returned("virtual")
                           /\ SaveDirOnDisk(vpDisk, vpPrinter.saveDirectory) => e }

\* a response of the route that reports an error
ErrorResponse(status, error) == [status |-> status, success |-> FALSE, error |-> error]

\* no backend call has been made for the request
NotStarted == tcp.phase = "idle" /\ usbCall[1].n = 0 /\ vpCall[1].phase = "idle"

\* the body is empty: 400, no backend is created
RouteNoData ==
  /\ Running
  /\ rt.res = NoResponse
  /\ NotStarted
  /\ rt' = [rt EXCEPT !.res = ErrorResponse(400, "No print data provided")]
  /\ UNCHANGED <<pfVars, glVars, usbVars, tcpVars, vpVars, proc>>

\* a JSON body whose data field is not a string (a number, an object):
\* printData.substring is not a function, the TypeError is thrown before the
\* printer is created and the catch block answers 500
RouteBadData ==
  /\ Running
  /\ rt.res = NoResponse
  /\ NotStarted
  /\ rt' = [rt EXCEPT !.res = ErrorResponse(500, "printData.substring is not a function")]
  /\ UNCHANGED <<pfVars, glVars, usbVars, tcpVars, vpVars, proc>>

\* createPrinter throws: the catch block answers 500
RouteCreateFails ==
  /\ Running
  /\ rt.res = NoResponse
  /\ CreatePrinter(rt.config).kind = "threw"
  /\ rt' = [rt EXCEPT !.res = ErrorResponse(500, CreatePrinter(rt.config).error)]
  /\ UNCHANGED <<pfVars, glVars, usbVars, tcpVars, vpVars, proc>>

\* createPrinter returned a backend: printer.print(printData)
RoutePrint ==
  /\ Running
  /\ rt.res = NoResponse
  /\ NotStarted
  /\ \/ CreatePrinter(rt.config) = Returned("tcp") /\ TcpPrint
     \/ CreatePrinter(rt.config) = Returned("usb") /\ UsbPrint(1)
     \/ CreatePrinter(rt.config) = Returned("virtual") /\ VpPrint(1)

\* the events of the backend call
RouteBackendEvent ==
  \/ TcpConnected \/ TcpData \/ TcpPeerClose \/ TcpFinish \/ TcpError
  \/ TcpEmitError \/ TcpEmitClose \/ TcpTimeout
  \/ UsbTransferDone(1)
  \/ VpResponse(1) \/ VpData(1) \/ VpEnd(1) \/ VpAbort(1)
  \/ VpNetError(1) \/ VpEmitError(1) \/ VpTimeout(1)

\* the promise the route awaits has settled: its continuation is a microtask
RouteResumes ==
  /\ rt.res = NoResponse
  /\ CreatePrinter(rt.config).kind = "returned"
  /\ ~NotStarted
  /\ PrintOutcome(CreatePrinter(rt.config).backend) # Pending

\* the await resumes: res.json(...) or the catch block
RouteRespond ==
  /\ proc # "exited"
  /\ RouteResumes
  /\ rt' = [rt EXCEPT !.res = PrintResponse(PrintOutcome(CreatePrinter(rt.config).backend))]
  /\ UNCHANGED <<pfVars, glVars, usbVars, tcpVars, vpVars, proc>>

\* the turn in which a promise was rejected with nobody handling it is over,
\* microtasks included: the unhandled rejection is raised as an uncaught
\* exception and the process exits with code 1.  The variables keep what the
\* process held when it died; no action reads them afterwards.
ProcExit ==
  /\ proc = "exiting"
  /\ ~RouteResumes
  /\ proc' = "exited"
  /\ UNCHANGED <<pfVars, glVars, usbVars, tcpVars, vpVars, rtVars>>

PrintNext ==
  \/ RouteNoData
  \/ RouteBadData
  \/ RouteCreateFails
  \/ RoutePrint
  \/ RouteBackendEvent
  \/ RouteRespond
  \/ ProcExit

-----------------------------------------------------------------------------
(* Specifications *)

PfNext  == PfCreate
GlNext  == GlRequest \/ GlDelete \/ GlOpen \/ GlRead \/ GlEnd
\* calls in sequence on one instance
UsbNext == UsbPrint(1) \/ UsbTransferDone(1) \/ ProcExit
\* two requests at the same time: one call on each instance
UsbConcNext ==
  \E i \in UsbInsts :
    \/ usbCall[i].n = 0 /\ UsbPrint(i)
    \/ UsbTransferDone(i)
    \/ ProcExit
VpNext ==
  \/ VpPrint(1)
  \/ VpResponse(1)
  \/ VpData(1)
  \/ VpEnd(1)
  \/ VpAbort(1)
  \/ VpNetError(1)
  \/ VpEmitError(1)
  \/ VpTimeout(1)
  \/ VpList
  \/ VpDelete
\* two sends at the same time on the one event loop: their events interleave
VpConcNext ==
  \E k \in VpCalls :
    \/ VpPrint(k)
    \/ VpResponse(k)
    \/ VpData(k)
    \/ VpEnd(k)
    \/ VpAbort(k)
    \/ VpNetError(k)
    \/ VpEmitError(k)
    \/ VpTimeout(k)
TcpNext ==
  \/ TcpPrint
  \/ TcpConnected
  \/ TcpData
  \/ TcpPeerClose
  \/ TcpFinish
  \/ TcpError
  \/ TcpEmitError
  \/ TcpEmitClose
  \/ TcpTimeout

\* the whole server; each component is explored below with the others at rest
\* The server starts with one printerConfig on one disk; the save directory
\* exists (fs.existsSync) when its path is on the disk.
Init ==
  /\ PfInit /\ GlInit /\ UsbInit /\ TcpInit /\ RtInit /\ Running
  /\ \E f \in OutputFormats : PrinterOf(f)
  /\ vpDisk \in VpDisks \cup GlDisks
  /\ VpAtRest
  /\ SaveDirOnDisk(vpDisk, vpPrinter.saveDirectory) => saveDirExists
Next == PfNext \/ GlNext \/ UsbNext \/ UsbConcNext \/ TcpNext \/ VpNext \/ VpConcNext \/ PrintNext
Spec == Init /\ [][Next]_vars

\* one component at a time, the others at rest
InitFactory == PfInit /\ GlIdle /\ UsbIdle /\ TcpIdle /\ VpIdle /\ RtIdle /\ Running
\* the labels route: every configuration on the empty disk, every disk under
\* the virtual configuration; the save directory is there when its path is
\* on the disk, and may be there empty
InitLabels  ==
  /\ PfAtRest /\ GlInit /\ UsbIdle /\ TcpIdle /\ RtInit /\ Running
  /\ PrinterOf(Undef)
  /\ vpDisk \in { d \in GlDisks : rt.config.type = Str(S_virtual) \/ d = << >> }
  /\ VpAtRest
  /\ saveDirExists \in { e \in BOOLEAN : SaveDirOnDisk(vpDisk, vpPrinter.saveDirectory) => e }
InitUSB     == PfIdle /\ GlIdle /\ UsbInit /\ TcpIdle /\ VpIdle /\ RtIdle /\ Running
InitTCP     == PfIdle /\ GlIdle /\ UsbIdle /\ TcpInit /\ VpIdle /\ RtIdle /\ Running
InitUSBConc == PfIdle /\ GlIdle /\ UsbInitOneDevice /\ TcpIdle /\ VpIdle /\ RtIdle /\ Running
\* the configurations for which the factory selects the virtual backend
InitVirtual ==
  /\ PfAtRest /\ GlIdle /\ UsbIdle /\ TcpIdle /\ VpInit /\ RtInit /\ Running
  /\ CreatePrinter(rt.config) = Returned("virtual")
  /\ saveDirExists \in { e \in BOOLEAN : SaveDirOnDisk(vpDisk, vpPrinter.saveDirectory) => e }

SpecFactory == InitFactory /\ [][PfNext]_vars
SpecLabels  == InitLabels /\ [][GlNext]_vars
SpecUSB     == InitUSB /\ [][UsbNext]_vars
SpecTCP     == InitTCP /\ [][TcpNext]_vars
SpecVirtual == InitVirtual /\ [][VpNext]_vars
SpecPrint   == InitPrint /\ [][PrintNext]_vars
SpecUSBConc == InitUSBConc /\ [][UsbConcNext]_vars
SpecVirtualConc == InitVirtual /\ [][VpConcNext]_vars

-----------------------------------------------------------------------------
(* Claims *)

\* the kind a config names, read without regard to letter case
IsKind(type, name) ==
  /\ type.t = "string"
  /\ Len(type.s) = Len(name)
  /\ \A i \in 1..Len(name) : ToLowerChar(type.s[i]) = name[i]

KnownKind(type) == IsKind(type, S_tcp) \/ IsKind(type, S_usb) \/ IsKind(type, S_virtual)

\* C1 as stated: createPrinter returns a TCP backend for kind tcp with host
\* and port present (a non-empty host, a non-zero port), a USB backend for kind
\* usb, a virtual backend for kind virtual; for every other kind, and for tcp
\* with host or port absent, it throws and constructs no backend.
C1_FactorySelectsBackend ==
  [][ pfConfig' # pfConfig \/ pfResult' # pfResult \/ pfBackends' # pfBackends =>
      LET c == pfConfig'
          tcpOk == IsKind(c.type, S_tcp) /\ Truthy(c.host) /\ Truthy(c.port)
      IN /\ tcpOk => pfResult' = Returned("tcp") /\ pfBackends' = Append(pfBackends, "tcp")
         /\ IsKind(c.type, S_usb) =>
              pfResult' = Returned("usb") /\ pfBackends' = Append(pfBackends, "usb")
         /\ IsKind(c.type, S_virtual) =>
              pfResult' = Returned("virtual") /\ pfBackends' = Append(pfBackends, "virtual")
         /\ (~KnownKind(c.type) \/ (IsKind(c.type, S_tcp) /\ ~tcpOk)) =>
              /\ pfResult'.kind = "threw"
              /\ pfBackends' = pfBackends
              /\ saveDirExists' = saveDirExists ]_vars

\* C1 amended: as stated for kind tcp, kind usb and the kinds that are refused;
\* for kind virtual createPrinter returns a virtual backend, and the save
\* directory exists afterwards, whenever the directory is there or can be
\* made; when it is missing and cannot be made, createPrinter throws the error
\* of mkdir and constructs no backend.
C1_FactorySelectsUnlessMkdirFails ==
  [][ pfConfig' # pfConfig \/ pfResult' # pfResult \/ pfBackends' # pfBackends =>
      LET c == pfConfig'
          tcpOk == IsKind(c.type, S_tcp) /\ Truthy(c.host) /\ Truthy(c.port)
      IN /\ tcpOk => pfResult' = Returned("tcp") /\ pfBackends' = Append(pfBackends, "tcp")
         /\ IsKind(c.type, S_usb) =>
              pfResult' = Returned("usb") /\ pfBackends' = Append(pfBackends, "usb")
         /\ IsKind(c.type, S_virtual) =>
              \/ /\ pfResult' = Returned("virtual")
                 /\ pfBackends' = Append(pfBackends, "virtual")
                 /\ saveDirExists'
              \/ /\ ~saveDirExists
                 /\ ~saveDirExists'
                 /\ pfResult' = Threw("EACCES: permission denied, mkdir")
                 /\ pfBackends' = pfBackends
         /\ (IsKind(c.type, S_virtual) /\ saveDirExists) => pfResult' = Returned("virtual")
         /\ (~KnownKind(c.type) \/ (IsKind(c.type, S_tcp) /\ ~tcpOk)) =>
              /\ pfResult'.kind = "threw"
              /\ pfBackends' = pfBackends
              /\ saveDirExists' = saveDirExists ]_vars

\* C1 witness: a virtual backend was constructed, then a tcp config without a
\* host was refused
C1_Witness ==
  /\ pfBackends = <<"virtual">>
  /\ IsKind(pfConfig.type, S_tcp)
  /\ ~Truthy(pfConfig.host)
  /\ pfResult = Threw("TCP printer requires host and port configuration")

\* whether an absolute path lies in a directory: the directory's segments are
\* the first segments of the path
InsideDir(abs, dir) ==
  LET a == AbsSegs(abs)
      d == AbsSegs(dir)
  IN Len(d) <= Len(a) /\ SubSeq(a, 1, Len(d)) = d

RequestedPath == PathResolve(Cwd, PathJoin(glEnv.saveDirectory, glReq.s))
SaveDirPath   == PathResolve(Cwd, glEnv.saveDirectory)

\* C2: a filename whose resolved path is not inside the save directory is
\* rejected before any filesystem call, and no file is served.
C2_OutsideRejectedBeforeFs ==
  (glReq # NoRequest /\ ~InsideDir(RequestedPath, SaveDirPath)) =>
    /\ glRes.status \in { 400, 403 }
    /\ glFsLog = <<>>
    /\ glRes.served = <<>>

UsbMatchesBoth(d) ==
  d.vendor = usbCfg.vendorId /\ d.product = usbCfg.productId.n

\* C3: with a product id configured, a device is selected only if its vendor
\* and product ids both equal the configured pair, and with no such device the
\* call fails with the device-not-found error; only without a product id is
\* the first device of the vendor accepted.
C3_ExactMatchWhenProductConfigured ==
  \A i \in UsbInsts :
    (usbCall[i].n > 0 /\ usbCall[i].phase # "idle" /\ Truthy(usbCfg.productId)) =>
      IF \E k \in 1..Len(usbBus) : UsbMatchesBoth(usbBus[k])
      THEN usbCall[i].found /\ UsbMatchesBoth(usbBus[usbInst[i].device])
      ELSE /\ ~usbCall[i].found
           /\ usbCall[i].outcome = Rejected("Zebra printer not found via USB")

\* C4: when the transfer callback of a call runs, close is invoked on the
\* device and the device is closed after it; the call fails with the transfer
\* error when the callback reported one and succeeds otherwise.
C4_CloseAfterTransfer ==
  [][ \A i \in UsbInsts :
      (usbCall[i].callback = "none" /\ usbCall'[i].callback # "none") =>
        /\ usbCall'[i].closeInvoked
        /\ ~usbBus'[usbInst[i].device].open
        /\ usbCall'[i].callback = "error" =>
             usbCall'[i].outcome = Rejected("LIBUSB_TRANSFER_ERROR")
        /\ usbCall'[i].callback = "ok" =>
             usbCall'[i].outcome = Resolved("Print job sent successfully via USB") ]_vars

\* C5: when the first interface of the opened device has no OUT endpoint, the
\* call fails with 'No OUT endpoint found on USB device' and no transfer is
\* issued.
C5_NoOutEndpointReported ==
  \A i \in UsbInsts :
    (/\ usbCall[i].phase # "idle"
     /\ usbCall[i].trace.claimOk
     /\ \A e \in 1..Len(usbBus[usbInst[i].device].endpoints) :
          usbBus[usbInst[i].device].endpoints[e] # "out") =>
      /\ usbCall[i].outcome = Rejected("No OUT endpoint found on USB device")
      /\ ~usbCall[i].transferIssued

UsbMatchesConfigured(d) ==
  /\ d.vendor = usbCfg.vendorId
  /\ Truthy(usbCfg.productId) => d.product = usbCfg.productId.n

\* C6: when no attached device matches the configured identifiers, the call
\* fails with the device-not-found error, and open, claim and transfer are
\* never invoked.
C6_NoMatchNeverOpened ==
  \A i \in UsbInsts :
    (usbCall[i].phase # "idle" /\ ~\E k \in 1..Len(usbBus) : UsbMatchesConfigured(usbBus[k])) =>
      /\ usbCall[i].outcome = Rejected("Zebra printer not found via USB")
      /\ ~usbCall[i].trace.openInvoked
      /\ ~usbCall[i].trace.claimInvoked
      /\ ~usbCall[i].transferIssued

\* C7: once print has settled, on whichever path, the socket it opened is
\* destroyed.
C7_SocketClosedWhenSettled ==
  tcp.outcome # Pending => tcp.sock = "destroyed"

\* C7 witness: the call settled by the timer on a connected socket, and the
\* close event has been delivered
C7_Witness ==
  /\ tcp.outcome = Resolved(Message("Print job sent (timeout)"))
  /\ tcp.written # <<>>
  /\ tcp.closeEmitted
  /\ tcp.sock = "destroyed"

\* C8: when the peer accepted the connection and the timer expires before any
\* data, close or error, print is resolved with 'Print job sent (timeout)'.
C8_SilentPeerTimeoutSuccess ==
  (tcp.timer = "fired" /\ tcp.first = "timeout" /\ tcp.written # <<>>) =>
    tcp.outcome = Resolved(Message("Print job sent (timeout)"))

\* C8 witness: the timer expired first on a connected, silent socket
C8_Witness ==
  /\ tcp.timer = "fired"
  /\ tcp.first = "timeout"
  /\ tcp.written = tcp.payload
  /\ tcp.written # <<>>
  /\ tcp.resp = <<>>
  /\ tcp.err = ""

\* C9 as stated: when response bytes arrive first, print resolves with exactly
\* those bytes, as text.
C9_ExactBytesAsText ==
  (tcp.first = "data") => tcp.outcome = Resolved(Text(tcp.resp))

\* C9 amended: when response bytes arrive first, print resolves with the
\* response and keeps it after the close event: the Buffer itself in the 5000 ms
\* variant, the text with every byte's high bit cleared in the 100 ms variant
\* (those bytes exactly when all are below 0x80); never with a success message.
C9_ResponseWins ==
  (tcp.first = "data") =>
    /\ tcp.outcome.kind = "resolved"
    /\ tcp.outcome.value.t # "message"
    /\ ~tcp.variant.ascii => tcp.outcome.value = Buffer(tcp.resp)
    /\ tcp.variant.ascii =>
         /\ tcp.outcome.value.t = "string"
         /\ Len(tcp.outcome.value.codes) = Len(tcp.resp)
         /\ \A k \in 1..Len(tcp.resp) :
              tcp.outcome.value.codes[k] = IF tcp.resp[k] >= 128 THEN tcp.resp[k] - 128
                                           ELSE tcp.resp[k]

\* C9 witness: a response with a byte above 0x7f arrived first in the ascii
\* variant and the close event has followed
C9_Witness ==
  /\ tcp.first = "data"
  /\ tcp.variant.ascii
  /\ \E k \in 1..Len(tcp.resp) : tcp.resp[k] >= 128
  /\ tcp.closeEmitted

\* C10: when an error is the first event, print rejects with that error; the
\* close event after it and the timer never make the outcome a success.
C10_ErrorFirstRejects ==
  (tcp.first = "error") =>
    /\ tcp.outcome \in { Pending, Rejected(tcp.err) }
    /\ ~tcp.errorPending => tcp.outcome = Rejected(tcp.err)

\* C10 witness: connecting failed, then close was emitted and the timer expired
C10_Witness ==
  /\ tcp.first = "error"
  /\ tcp.err = "ECONNREFUSED"
  /\ tcp.closeEmitted
  /\ tcp.timer = "fired"
  /\ tcp.outcome = Rejected("ECONNREFUSED")


\* the absolute path of a name in the save directory
InSaveDir(name) == PathResolve(Cwd, vpPrinter.saveDirectory) \o <<SLASH>> \o name

\* the step in which the 'end' of call k's response is handled
EndStep(k) == vpCall[k].res = "open" /\ vpCall'[k].res = "ended"

\* every file but the one at abs is as it was
OthersUntouched(abs) ==
  /\ DOMAIN vpDisk' \ { abs } = DOMAIN vpDisk \ { abs }
  /\ \A q \in DOMAIN vpDisk \ { abs } : vpDisk'[q] = vpDisk[q]

\* C11: when the 'end' of a 200 response with body B is handled and the
\* output kind is png, the save directory contains a new file
\* label_<timestamp>.png, named after an instant of the clock during the step,
\* with contents B, every other file is as it was, the outcome reports that
\* filename and dataSize = len(B), and every list made of the directory from
\* then on includes the file with size len(B).
C11_SavedArtifact ==
  [][ \A k \in VpCalls :
      (EndStep(k) /\ vpCall[k].status = 200 /\ vpPrinter.outputFormat = S_png) =>
      LET B    == vpCall[k].data
          out  == vpCall'[k].outcome
      IN \E now \in vpClock..vpClock' :
           LET name == S_label \o ReplaceColonDot(ToISOString(now)) \o <<DOT>> \o S_png
               abs  == InSaveDir(name)
           IN /\ out.kind = "resolved"
              /\ out.value.success
              /\ out.value.filename = name
              /\ out.value.dataSize = Len(B)
              /\ abs \in DOMAIN vpDisk'
              /\ vpDisk'[abs].data = B
              /\ abs \notin DOMAIN vpDisk
              /\ OthersUntouched(abs)
              /\ \A r \in ListSavedLabels(vpDisk', vpPrinter.saveDirectory, TRUE) :
                   /\ r.returned
                   /\ \E i \in 1..Len(r.list) :
                        r.list[i].filename = name /\ r.list[i].size = Len(B) ]_vars

\* C12: when the 'end' of a response whose status is not 200 is handled, the
\* call is rejected with the error that carries the status code and the body
\* as text, no file is written and the disk is left as it was.
C12_ErrorStatusRejected ==
  [][ (EndStep(1) /\ vpCall[1].status # 200) =>
      /\ vpCall'[1].outcome =
           Rejected(VpError("Labelary API error", vpCall[1].status, ToStringUtf8(vpCall[1].data)))
      /\ vpCall'[1].wrote = <<>>
      /\ vpDisk' = vpDisk ]_vars

\* C12 witness: a 404 with a body was answered and the call failed with both
C12_Witness ==
  /\ vpCall[1].res = "ended"
  /\ vpCall[1].outcome = Rejected(VpError("Labelary API error", 404, <<65533>>))
  /\ vpCall[1].wrote = <<>>

\* C13: once the request timeout has fired, the call is rejected with
\* 'Request timeout' and stays so when the 'error' of the destroyed request is
\* emitted; the response never ends and the call writes no file.
C13_TimeoutWins ==
  vpCall[1].timeoutFired =>
    /\ vpCall[1].outcome = Rejected(VpError("Request timeout", 0, <<>>))
    /\ vpCall[1].res # "ended"
    /\ vpCall[1].wrote = <<>>

\* C13 witness: the timeout fired before any response and the request's
\* 'error' was emitted after it
C13_Witness ==
  /\ vpCall[1].timeoutFired
  /\ vpCall[1].errorEmitted
  /\ vpCall[1].outcome = Rejected(VpError("Request timeout", 0, <<>>))

\* the step of a delete call
DeleteStep ==
  /\ vpOp'.op = "delete"
  /\ vpCall' = vpCall
  /\ vpOp' # vpOp \/ vpDisk' # vpDisk

\* the step of a delete call in which deleteSavedLabel was called: the
\* endpoint is available and the printer was constructed
DeleteCalled ==
  /\ DeleteStep
  /\ vpOp'.status # 400
  /\ vpOp'.error # "EACCES: permission denied, mkdir"

\* C14: delete of a filename that is not the name of a file in the save
\* directory throws 'Failed to delete file: File not found' and leaves the disk
\* as it was; delete of the name of a file in it returns true, removes that
\* file and no other, and no list made of the directory afterwards includes it.
C14_DeleteExactlyOne ==
  [][ DeleteCalled =>
      LET abs == InSaveDir(vpOp'.arg) IN
      IF /\ vpOp'.arg \in ReadDirSync(vpDisk, vpPrinter.saveDirectory)
         /\ abs \in FilesOf(vpDisk)
      THEN /\ vpOp'.returned
           /\ abs \notin DOMAIN vpDisk'
           /\ OthersUntouched(abs)
           /\ \A r \in ListSavedLabels(vpDisk', vpPrinter.saveDirectory, TRUE) :
                \A i \in 1..Len(r.list) : r.list[i].filename # vpOp'.arg
      ELSE /\ ~vpOp'.returned
           /\ vpOp'.error = "Failed to delete file: File not found"
           /\ vpDisk' = vpDisk ]_vars

\* the transport attempt of the request failed: an 'error' event came first
\* or the timer expired before the connection was made and anything was
\* written (TCP); no device, a failed initialization, a refused or failed
\* transfer (USB); a status other than 200, a failed write, a network error,
\* the request timeout or an aborted response (virtual); or the promise of
\* print was rejected
BackendFailed ==
  \/ tcp.first = "error"
  \/ tcp.first = "timeout" /\ tcp.written = <<>>
  \/ tcp.outcome.kind = "rejected"
  \/ usbCall[1].n > 0 /\ ~usbCall[1].found
  \/ usbCall[1].trace.error # ""
  \/ usbCall[1].callback = "error"
  \/ usbCall[1].outcome.kind = "rejected"
  \/ vpCall[1].res = "ended" /\ vpCall[1].status # 200
  \/ vpCall[1].res = "aborted"
  \/ vpCall[1].timeoutFired
  \/ vpCall[1].errorEmitted
  \/ vpCall[1].outcome.kind = "rejected"

\* C15: a print request makes at most one socket connection, one bulk
\* transfer or one HTTP request, also after a failure; once it is answered,
\* every failure of the transport attempt has been answered with status 500
\* and success false, and a success answer is sent only for a promise that
\* resolved; a failure is not left without report: once the response of the
\* render service is aborted and no 'error' event is outstanding, the promise
\* of print is rejected.
C15_OneAttemptFailuresPropagated ==
  /\ tcp.sockets <= 1
  /\ usbCall[1].transfers <= 1
  /\ vpCall[1].requests <= 1
  /\ tcp.sockets + usbCall[1].transfers + vpCall[1].requests <= 1
  /\ (rt.res # NoResponse /\ BackendFailed) => rt.res.status = 500 /\ ~rt.res.success
  /\ (rt.res # NoResponse /\ CreatePrinter(rt.config).kind = "threw") =>
       rt.res.status \in { 400, 500 } /\ ~rt.res.success
  /\ (rt.res # NoResponse /\ rt.res.success) =>
       /\ rt.res.status = 200
       /\ PrintOutcome(CreatePrinter(rt.config).backend).kind = "resolved"
  /\ (vpCall[1].res = "aborted" /\ ~vpCall[1].errorPending) =>
       vpCall[1].outcome.kind = "rejected"

\* C16: two print calls in flight at the same time use transport resources
\* of their own: the transfers pending for two calls are never on the same
\* opened device, so that the close at the completion of one call cannot be
\* a close of the device the other call is using.
C16_OwnTransportResource ==
  \A i, j \in UsbInsts :
    (i # j /\ usbCall[i].phase = "pending" /\ usbCall[j].phase = "pending") =>
      usbCall[i].transferDev # usbCall[j].transferDev

\* C17: whenever the call has resolved with the timeout message, the
\* connection had been opened and the whole payload written to the socket.
C17_TimeoutOnlyAfterWrite ==
  tcp.outcome = Resolved(Message("Print job sent (timeout)")) =>
    tcp.written = tcp.payload /\ tcp.written # <<>>

\* what each of the four events reports when it is the first
OutcomeOfFirst(t) ==
  CASE t.first = "data"    -> Resolved(DataValue(t.variant, t.resp))
    [] t.first = "close"   -> Resolved(Message("Print job sent successfully"))
    [] t.first = "error"   -> Rejected(t.err)
    [] t.first = "timeout" -> Resolved(Message("Print job sent (timeout)"))
    [] OTHER               -> Pending

\* C18: a settled call reports what the first of {response bytes, peer close,
\* error, timer expiry} reports, and once settled the outcome never changes,
\* whatever event comes later.
C18_FirstEventDecides ==
  /\ [](tcp.outcome # Pending => tcp.outcome = OutcomeOfFirst(tcp))
  /\ [][tcp.outcome # Pending => tcp'.outcome = tcp.outcome]_vars

\* C19: once a call that opened the device has settled, close has been
\* invoked, the device is closed and its interface released, whichever way the
\* call ended.
C19_ClosedOnEveryExit ==
  \A i \in UsbInsts :
    (usbCall[i].phase = "settled" /\ usbCall[i].trace.openOk) =>
      /\ usbCall[i].closeInvoked
      /\ ~usbBus[usbInst[i].device].open
      /\ ~usbBus[usbInst[i].device].claimed

\* C20: a call that issued a transfer had, in that call, opened the device,
\* claimed the interface and located an OUT endpoint; no transfer is issued by
\* a call whose open or claim failed.
C20_TransferOnlyAfterInit ==
  \A i \in UsbInsts :
    usbCall[i].transferIssued =>
      /\ usbCall[i].trace.openOk
      /\ usbCall[i].trace.claimOk
      /\ usbCall[i].trace.endpointFound

\* C21: a delete call never removes a file whose path is outside the save
\* directory, whatever the filename argument: every file that is not inside
\* the save directory is still there after the call.
C21_DeleteStaysInSaveDir ==
  [][ DeleteStep =>
      \A q \in DOMAIN vpDisk :
        ~InsideDir(q, PathResolve(Cwd, vpPrinter.saveDirectory)) => q \in DOMAIN vpDisk' ]_vars

\* C22: two distinct successful sends generate distinct filenames, also when
\* their responses complete within the same clock millisecond.
C22_DistinctFilenames ==
  (vpCall[1].outcome.kind = "resolved" /\ vpCall[2].outcome.kind = "resolved") =>
    vpCall[1].outcome.value.filename # vpCall[2].outcome.value.filename

\* the output kind an Accept header asks for
KindOfAccept(accept) ==
  IF accept = "application/pdf" THEN S_pdf
  ELSE IF accept = "application/json" THEN S_json ELSE S_png

\* C23: for every configured outputFormat, in any letter case, the Accept
\* header sent, the extension of the generated filename and the write mode are
\* of the same output kind: the file of a successful send has the extension of
\* the kind the Accept header asked for, and holds the body as text when that
\* kind is json and the body's bytes otherwise.
C23_OneOutputKind ==
  vpCall[1].outcome.kind = "resolved" =>
    LET kind == KindOfAccept(vpCall[1].accept)
        file == vpDisk[PathResolve(Cwd, vpCall[1].wrote)]
    IN /\ ExtName(vpCall[1].outcome.value.filename) = <<DOT>> \o kind
       /\ PathResolve(Cwd, vpCall[1].wrote) \in DOMAIN vpDisk =>
            file.data = IF kind = S_json THEN Utf8Encode(ToStringUtf8(vpCall[1].data))
                        ELSE vpCall[1].data

\* no transport event of call k can occur any more: the request is closed or
\* destroyed, no 'error' is waiting to be emitted, the timeout is not armed
Quiescent(k) ==
  /\ vpCall[k].phase # "idle"
  /\ vpCall[k].req # "open"
  /\ ~vpCall[k].errorPending
  /\ vpCall[k].timer # "armed"

\* C24: every send resolves or rejects, whatever the transport events are:
\* once no further event of the call can occur, the call has settled.
C24_SendSettles ==
  Quiescent(1) => vpCall[1].outcome # Pending

\* createPrinter selects the virtual backend for the configured type
FactorySelectsVirtual == CreatePrinter(rt.config) = Returned("virtual")

\* C25: for every configured printer type, in any letter case, a virtual-only
\* endpoint is available exactly when createPrinter selects the virtual
\* backend for that value; for every other value it answers 400 and touches
\* nothing in the save directory.
C25_AvailableIffFactoryVirtual ==
  glReq # NoRequest =>
    /\ FactorySelectsVirtual <=> glRes.status # 400
    /\ ~FactorySelectsVirtual => (glFsLog = <<>> /\ glRes.served = <<>>)

=============================================================================
